---- MODULE Spec2Model ----
(***************************************************************************)
(* A model of the AI triage chat of tooth_system: knowledge retrieval,     *)
(* doctor ranking, personalised recommendation and the chat turn handler.  *)
(*                                                                         *)
(* Text is a sequence of characters.  A character is written as an ASCII   *)
(* name (the pinyin of a Chinese character, a Latin letter, a digit or a   *)
(* punctuation mark); substring tests, case folding and the tokenizer work *)
(* on these sequences as the Python and SQL operations work on strings.    *)
(***************************************************************************)
EXTENDS Integers, Sequences, FiniteSets, TLC

VARIABLES
    articles,          \* table dental_knowledge_article, in id order
    doctors,           \* table doctor, in id order
    chat_messages,     \* table ai_chat_message, in creation order (user and role)
    rec_logs,          \* table ai_recommendation_log, in creation order
    embedding_model,   \* the module global _embedding_model: "None" or "loaded"
    pc,                \* per request thread: its position in get_embedding_model
    ret,               \* per request thread: what its last call returned
    load_count,        \* how many times the model load has been started
    out,               \* what the last call returned (observation only)
    behaviors,         \* the UserBehavior table, oldest row first
    profiles,          \* the UserProfile table: user id -> preference fields
    updated_at,        \* column user_profile.updated_at: user id -> minute of last save
    appointments,      \* table appointment, in creation order
    now,               \* timezone.now(), in minutes
    recomputed_at,     \* history: user id -> minute of the last recomputation
    records,           \* table record (medical records), in id order
    local              \* per request thread: the model instances its rating request holds

vars == <<articles, doctors, chat_messages, rec_logs, embedding_model, pc, ret, load_count,
          out, behaviors, profiles, updated_at, appointments, now, recomputed_at,
          records, local>>

(***************************************************************************)
(* Characters and text                                                     *)
(***************************************************************************)
Digits == {"1", "2"}
LatinLower == {"a", "b"}
LatinUpper == {"A", "B"}
Punct == {" ", ",", "?", "."}

\* The character classes of the pattern [\u4e00-\u9fa5]+|\d+|[a-zA-Z]+
Class(c) ==
    IF c \in Digits THEN "digit"
    ELSE IF c \in LatinLower \cup LatinUpper THEN "latin"
    ELSE IF c \in Punct THEN "other"
    ELSE "cjk"

\* str.lower() / the case folding of icontains and iexact
Lower(c) == IF c = "A" THEN "a" ELSE IF c = "B" THEN "b" ELSE c

LowerText(t) == [i \in 1..Len(t) |-> Lower(t[i])]

\* Python: p in t
Contains(t, p) ==
    \E i \in 0..(Len(t) - Len(p)) : SubSeq(t, i + 1, i + Len(p)) = p

\* a NULL column value
NullText == <<"NULL">>

IsNull(t) == t = NullText

\* SQL: column LIKE %p% ignoring case; never true of a NULL column
IContains(t, p) == ~IsNull(t) /\ Contains(LowerText(t), LowerText(p))

\* SQL: column = p ignoring case
IExact(t, p) == ~IsNull(t) /\ LowerText(t) = LowerText(p)

\* Python truthiness of a str-or-None value
Truthy(t) == ~IsNull(t) /\ Len(t) > 0

\* the end of the run of characters of one class that starts at i
RunEnd(t, i) ==
    CHOOSE j \in i..Len(t) :
        /\ \A k \in i..j : Class(t[k]) = Class(t[i])
        /\ (j = Len(t) \/ Class(t[j + 1]) # Class(t[i]))

RECURSIVE FindAllFrom(_, _, _)
FindAllFrom(t, i, classes) ==
    IF i > Len(t) THEN <<>>
    ELSE IF Class(t[i]) \notin classes THEN FindAllFrom(t, i + 1, classes)
    ELSE <<SubSeq(t, i, RunEnd(t, i))>> \o FindAllFrom(t, RunEnd(t, i) + 1, classes)

\* re.findall(r'[\u4e00-\u9fa5]+|\d+|[a-zA-Z]+', t)
FindAllWords(t) == FindAllFrom(t, 1, {"cjk", "digit", "latin"})

\* re.findall(r'[\u4e00-\u9fa5]+', t)
FindAllCjk(t) == FindAllFrom(t, 1, {"cjk"})

\* s[:n] for n >= 0
Take(s, n) == SubSeq(s, 1, IF n < Len(s) THEN n ELSE Len(s))

Range(s) == {s[i] : i \in 1..Len(s)}

\* list.sort / ORDER BY: the stable sort of s in which s[i] comes before s[j]
\* when before[i, j]; elements that neither precede the other keep their order
SortStable(s, before) ==
    LET n == Len(s)
        pos == [i \in 1..n |-> 1 + Cardinality({j \in 1..n :
                                  \/ before[j, i]
                                  \/ (~before[i, j] /\ j < i)})]
    IN [k \in 1..n |-> s[CHOOSE i \in 1..n : pos[i] = k]]

\* list.sort(key=lambda x: x[key], reverse=True)
SortDescending(s, key) ==
    SortStable(s, [i, j \in 1..Len(s) |-> s[i][key] > s[j][key]])

(***************************************************************************)
(* Stop words and the keyword extraction shared by retrieval and ranking   *)
(***************************************************************************)
\* retrieval.py:68-73
StopWords == {
    <<"wo">>, <<"le">>, <<"de">>, <<"shi">>, <<"zai">>, <<"you">>, <<"he">>,
    <<"jiu4">>, <<"bu">>, <<"ren">>, <<"dou">>, <<"yi">>, <<"yi", "ge">>,
    <<"shang">>, <<"ye">>, <<"hen">>, <<"dao">>, <<"shuo">>, <<"yao">>,
    <<"qu">>, <<"ni">>, <<"hui">>, <<"zhe_p">>, <<"mei_n", "you">>, <<"kan">>,
    <<"hao">>, <<"zi", "ji_s">>, <<"zhe">>, <<"ma">>, <<"ne">>, <<"a_p">>,
    <<"ya_p">>, <<"ba_p">>, <<"me">>, <<"shen", "me">>, <<"zen", "me">>,
    <<"ru", "he_q">>, <<"wei", "shen", "me">>, <<"zen", "me", "ban">>,
    <<"neng">>, <<"ke_y", "yi3">>, <<"ying", "gai">>, <<"xu", "yao">>,
    <<"xiang">>, <<"qing">>, <<"bang">>, <<"gei">> }

\* retrieval.py:257-262: the ranker's list also drops "yi1 sheng" and "shan chang"
RankerStopWords == StopWords \cup { <<"yi1", "sheng">>, <<"shan", "chang">> }

\* [word for word in words if word and word not in stop and len(word) >= 2]
Keywords(question, stop) ==
    LET words == FindAllWords(question)
        Keep(w) == Len(w) > 0 /\ w \notin stop /\ Len(w) >= 2
    IN SelectSeq(words, Keep)

(***************************************************************************)
(* The embedding provider                                                  *)
(***************************************************************************)
\* What loading the model does when it is attempted (the provider is external)
LoadOutcomes == {"import_error", "import_raises", "load_ok", "load_fallback_ok", "load_fail"}

\* get_embedding_model run without interruption.  load is what the load
\* attempt does if one is made.  Result: the exception flag, the value
\* returned, the global afterwards and whether a load was executed.
get_embedding_model(global, load) ==
    IF global # "None"
    THEN [exc |-> FALSE, model |-> global, global |-> global, loaded |-> FALSE]
    ELSE IF load = "import_error"
    THEN [exc |-> FALSE, model |-> "None", global |-> "None", loaded |-> FALSE]
    ELSE IF load = "import_raises"
    THEN [exc |-> TRUE, model |-> "None", global |-> "None", loaded |-> FALSE]
    ELSE IF load \in {"load_ok", "load_fallback_ok"}
    THEN [exc |-> FALSE, model |-> "loaded", global |-> "loaded", loaded |-> TRUE]
    ELSE [exc |-> FALSE, model |-> "None", global |-> "None", loaded |-> TRUE]

\* generate_embedding: the model is fetched again and encodes the text
generate_embedding(global, emb) ==
    LET g == get_embedding_model(global, emb.load)
    IN IF g.exc \/ g.model = "None" \/ emb.encode = "raise"
       THEN [exc |-> TRUE, vector |-> <<>>, global |-> g.global]
       ELSE [exc |-> FALSE, vector |-> emb.qvec, global |-> g.global]

(***************************************************************************)
(* Vector retrieval                                                        *)
(***************************************************************************)
RECURSIVE DotFrom(_, _, _)
DotFrom(u, v, i) == IF i > Len(u) THEN 0 ELSE u[i] * v[i] + DotFrom(u, v, i + 1)

\* np.dot of two vectors of one length
Dot(u, v) == DotFrom(u, v, 1)

\* the square of np.linalg.norm
NormSq(u) == Dot(u, u)

\* similarity >= threshold, for similarity = dot / (norm * norm) with a zero
\* product of norms replaced by 1, and threshold = num / den >= 0, compared
\* on squares
SimAtLeast(a, q, num, den) ==
    LET d == Dot(a, q)
        n == NormSq(a) * NormSq(q)
    IN IF n = 0 THEN d * den >= num
       ELSE IF num = 0 THEN d >= 0
       ELSE d > 0 /\ d * d * den * den >= num * num * n

\* similarity of a exceeds that of b (both positive), compared on squares
SimGreater(a, b, q) ==
    LET da == Dot(a, q)
        db == Dot(b, q)
    IN da * da * NormSq(b) > db * db * NormSq(a)

similarity_threshold_num == 3
similarity_threshold_den == 10
max_articles == 150

\* ORDER BY -updated_at, -id
NewerFirst(x, y) ==
    x.updated_at > y.updated_at \/ (x.updated_at = y.updated_at /\ x.id > y.id)

\* the vector retrieval without the sort by similarity (a variant)
retrieve_knowledge_by_vector_unsorted(question, limit, maxa, arts, global, emb) ==
    LET g == get_embedding_model(global, emb.load)
        e == generate_embedding(g.global, emb)
        HasVec(a) == a.is_active /\ a.has_embedding
        qs0 == SelectSeq(arts, HasVec)
        qs == IF Len(qs0) > maxa THEN Take(SortStable(qs0, [i, j \in 1..Len(qs0) |-> NewerFirst(qs0[i], qs0[j])]), maxa) ELSE qs0
        NonEmpty(a) == Len(a.embedding) > 0
        valid == SelectSeq(qs, NonEmpty)
        mismatch == \E i \in 1..Len(valid) : Len(valid[i].embedding) # Len(e.vector)
        Above(a) == SimAtLeast(a.embedding, e.vector,
                               similarity_threshold_num, similarity_threshold_den)
        results == SelectSeq(valid, Above)
    IN IF g.exc \/ g.model = "None"
       THEN [exc |-> FALSE, arts |-> <<>>, global |-> g.global]
       ELSE IF e.exc
       THEN [exc |-> FALSE, arts |-> <<>>, global |-> e.global]
       ELSE IF Len(qs0) = 0 \/ Len(valid) = 0
       THEN [exc |-> FALSE, arts |-> <<>>, global |-> e.global]
       ELSE IF mismatch
       THEN [exc |-> TRUE, arts |-> <<>>, global |-> e.global]
       ELSE [exc |-> FALSE, arts |-> Take(results, limit), global |-> e.global]

retrieve_knowledge_by_vector(question, limit, maxa, arts, global, emb) ==
    LET g == get_embedding_model(global, emb.load)
        e == generate_embedding(g.global, emb)
        HasVec(a) == a.is_active /\ a.has_embedding
        qs0 == SelectSeq(arts, HasVec)
        qs == IF Len(qs0) > maxa THEN Take(SortStable(qs0, [i, j \in 1..Len(qs0) |-> NewerFirst(qs0[i], qs0[j])]), maxa) ELSE qs0
        NonEmpty(a) == Len(a.embedding) > 0
        valid == SelectSeq(qs, NonEmpty)
        mismatch == \E i \in 1..Len(valid) : Len(valid[i].embedding) # Len(e.vector)
        Above(a) == SimAtLeast(a.embedding, e.vector,
                               similarity_threshold_num, similarity_threshold_den)
        results == SelectSeq(valid, Above)
        better == [i, j \in 1..Len(results) |->
                      SimGreater(results[i].embedding, results[j].embedding, e.vector)]
        sorted == SortStable(results, better)
    IN IF g.exc \/ g.model = "None"
       THEN [exc |-> FALSE, arts |-> <<>>, global |-> g.global]
       ELSE IF e.exc
       THEN [exc |-> FALSE, arts |-> <<>>, global |-> e.global]
       ELSE IF Len(qs0) = 0 \/ Len(valid) = 0
       THEN [exc |-> FALSE, arts |-> <<>>, global |-> e.global]
       ELSE IF mismatch
       THEN [exc |-> TRUE, arts |-> <<>>, global |-> e.global]
       ELSE [exc |-> FALSE, arts |-> Take(sorted, limit), global |-> e.global]

(***************************************************************************)
(* Knowledge retrieval                                                     *)
(***************************************************************************)
\* the filter of the lexical path: some keyword, or the whole question, is
\* contained in question_pattern, title or content
LexicalMatch(a, question, keywords) ==
    LET Hit(k) == \/ IContains(a.question_pattern, k)
                  \/ IContains(a.title, k)
                  \/ IContains(a.content, k)
    IN (\E i \in 1..Len(keywords) : Hit(keywords[i])) \/ Hit(question)

\* the lexical path without the is_active filter
lexical_retrieve_all_rows(question, limit, arts) ==
    LET kw0 == Keywords(question, StopWords)
        keywords == IF Len(kw0) = 0 THEN <<question>> ELSE kw0
        Match(a) == LexicalMatch(a, question, keywords)
    IN IF Len(arts) = 0 THEN <<>> ELSE Take(SelectSeq(arts, Match), limit)

lexical_retrieve(question, limit, arts) ==
    LET Active(a) == a.is_active
        qs == SelectSeq(arts, Active)
        kw0 == Keywords(question, StopWords)
        keywords == IF Len(kw0) = 0 THEN <<question>> ELSE kw0
        Match(a) == LexicalMatch(a, question, keywords)
    IN IF Len(qs) = 0 THEN <<>> ELSE Take(SelectSeq(qs, Match), limit)

\* the retriever returning the vector result even when it is empty
retrieve_knowledge_snippets_no_fallback(question, limit, use_vector, arts, global, emb) ==
    LET has_vectorized_articles ==
            \E i \in 1..Len(arts) : arts[i].is_active /\ arts[i].has_embedding
        v == retrieve_knowledge_by_vector(question, limit, max_articles, arts, global, emb)
        lex == lexical_retrieve(question, limit, arts)
    IN IF use_vector /\ has_vectorized_articles
       THEN IF ~v.exc
            THEN [exc |-> FALSE, arts |-> v.arts, path |-> "vector", global |-> v.global]
            ELSE [exc |-> FALSE, arts |-> lex, path |-> "lexical", global |-> v.global]
       ELSE [exc |-> FALSE, arts |-> lex, path |-> "lexical", global |-> global]

retrieve_knowledge_snippets(question, limit, use_vector, arts, global, emb) ==
    LET has_vectorized_articles ==
            \E i \in 1..Len(arts) : arts[i].is_active /\ arts[i].has_embedding
        v == retrieve_knowledge_by_vector(question, limit, max_articles, arts, global, emb)
        lex == lexical_retrieve(question, limit, arts)
    IN IF use_vector /\ has_vectorized_articles
       THEN IF ~v.exc /\ Len(v.arts) > 0
            THEN [exc |-> FALSE, arts |-> v.arts, path |-> "vector", global |-> v.global]
            ELSE [exc |-> FALSE, arts |-> lex, path |-> "lexical", global |-> v.global]
       ELSE [exc |-> FALSE, arts |-> lex, path |-> "lexical", global |-> global]

(***************************************************************************)
(* The rule-based doctor ranker                                            *)
(***************************************************************************)
\* SPECIALTY_MAPPING / specialty_mapping, in the dict's insertion order
specialty_mapping == <<
    <<<<"zheng", "ji">>, <<"zheng", "ji">>>>,
    <<<<"jiao", "zheng">>, <<"zheng", "ji">>>>,
    <<<<"ya", "chi", "jiao", "zheng">>, <<"zheng", "ji">>>>,
    <<<<"ya", "jiao", "zheng">>, <<"zheng", "ji">>>>,
    <<<<"zhong", "zhi">>, <<"zhong", "zhi">>>>,
    <<<<"zhong", "zhi", "ya">>, <<"zhong", "zhi">>>>,
    <<<<"bu3", "ya">>, <<"bu3", "ya">>>>,
    <<<<"gen", "guan">>, <<"gen", "guan">>>>,
    <<<<"gen", "guan", "zhi4", "liao">>, <<"gen", "guan">>>>,
    <<<<"ya", "zhou">>, <<"ya", "zhou">>>>,
    <<<<"ya", "zhou", "bing">>, <<"ya", "zhou">>>>,
    <<<<"kou", "qiang", "nei", "ke">>, <<"kou", "qiang", "nei", "ke">>>>,
    <<<<"kou", "qiang", "wai", "ke">>, <<"kou", "qiang", "wai", "ke">>>>,
    <<<<"er", "tong", "kou", "qiang">>, <<"er", "tong", "kou", "qiang">>>>,
    <<<<"kou", "qiang", "nian", "mo">>, <<"kou", "qiang", "nian", "mo">>>>,
    <<<<"qu3", "chi">>, <<"qu3", "chi">>>>,
    <<<<"zhu", "ya">>, <<"qu3", "chi">>>>,
    <<<<"ya", "sui">>, <<"ya", "sui">>>>,
    <<<<"ba", "ya">>, <<"ba", "ya">>>>,
    <<<<"xi", "ya">>, <<"xi", "ya">>>>,
    <<<<"mei", "bai">>, <<"mei", "bai">>>> >>

\* no tag is too generic (a variant)
NoGenericTags == {}

\* the tags too generic to match on (retrieval.py:246)
GenericTags == {
    <<"kou", "qiang", "nei", "ke">>, <<"kou", "qiang", "wai", "ke">>,
    <<"zheng", "ji", "ke">>, <<"er", "tong", "kou", "qiang", "ke">> }

\* the sentinel disease category "unknown"
Unknown == <<"wei4", "zhi">>

\* a JSON value of an intent field: absent key, null, or a string
JAbsent == [k |-> "absent", v |-> <<>>]
JNull == [k |-> "null", v |-> <<>>]
JStr(t) == [k |-> "str", v |-> t]

\* dict.get(key): an absent key reads as None
JGet(intent, key) == IF intent[key].k = "absent" THEN JNull ELSE intent[key]

\* (intent.get(key) or "") if isinstance(intent, dict) else ""
IntentText(intent, key) ==
    IF intent.kind = "dict" /\ intent[key].k = "str" THEN intent[key].v ELSE <<>>

RECURSIVE SplitFrom(_, _, _)
SplitFrom(t, i, cur) ==
    IF i > Len(t) THEN <<cur>>
    ELSE IF t[i] = "," THEN <<cur>> \o SplitFrom(t, i + 1, <<>>)
    ELSE SplitFrom(t, i + 1, Append(cur, t[i]))

\* str.split(',')
SplitComma(t) == SplitFrom(t, 1, <<>>)

RECURSIVE Strip(_)
\* str.strip()
Strip(t) ==
    IF Len(t) > 0 /\ t[1] = " " THEN Strip(Tail(t))
    ELSE IF Len(t) > 0 /\ t[Len(t)] = " " THEN Strip(SubSeq(t, 1, Len(t) - 1))
    ELSE t

\* [tag.strip() for tag in tags.split(',') if tag.strip()]
TagsOf(a) ==
    IF Truthy(a.tags)
    THEN LET parts == SplitComma(a.tags)
             stripped == [i \in 1..Len(parts) |-> Strip(parts[i])]
             NonBlank(x) == Len(x) > 0
         IN SelectSeq(stripped, NonBlank)
    ELSE <<>>

ThreeFields(term) ==
    {<<"specialty", term>>, <<"introduction", term>>, <<"experience", term>>}

\* retrieval.py:292: list(specialty_mapping.keys())
specialty_keywords == [i \in 1..Len(specialty_mapping) |-> specialty_mapping[i][1]]

\* the first mapping entry, in order, among the entries hits; 0 if none
FirstMapping(hits) ==
    IF hits # {}
    THEN CHOOSE i \in hits : \A j \in hits : i <= j
    ELSE 0

\* lines 299-304: the first key of the mapping that occurs in the question
WholePhraseHit(question) ==
    FirstMapping({i \in 1..Len(specialty_keywords) : Contains(question, specialty_keywords[i])})

\* lines 308-319: the specialty a single keyword maps to; <<>> if none
KeywordSpecialty(keyword) ==
    LET Is == {i \in 1..Len(specialty_keywords) : specialty_keywords[i] = keyword}
        Inside == {i \in 1..Len(specialty_keywords) : Contains(keyword, specialty_keywords[i])}
        Either == {i \in 1..Len(specialty_keywords) :
                      Contains(keyword, specialty_keywords[i]) \/ Contains(specialty_keywords[i], keyword)}
    IN IF FirstMapping(Is) # 0 THEN specialty_mapping[FirstMapping(Is)][2]
       ELSE IF FirstMapping(Inside) # 0 THEN specialty_mapping[FirstMapping(Either)][2]
       ELSE <<>>

\* the conditions derived from the question, with a specialty hit matched
\* on the three fields (a variant)
QuestionQueryThreeFields(question) ==
    LET keywords == Take(Keywords(question, RankerStopWords), 5)
        whole == WholePhraseHit(question)
        kwspec == {KeywordSpecialty(keywords[i]) : i \in 1..Len(keywords)} \ {<<>>}
        matched_specialty == whole # 0 \/ kwspec # {}
        spec == IF whole # 0 THEN ThreeFields(specialty_mapping[whole][2])
                ELSE UNION {ThreeFields(t) : t \in kwspec}
        names == {<<"name", keywords[i]>> : i \in
                     {j \in 1..Len(keywords) : Len(keywords[j]) >= 2 /\ Len(keywords[j]) <= 4}}
        broad == IF matched_specialty THEN {}
                 ELSE UNION {ThreeFields(keywords[i]) : i \in 1..Len(keywords)}
    IN spec \cup names \cup broad

\* lines 253-334: the conditions derived from the question
QuestionQuery(question) ==
    LET keywords == Take(Keywords(question, RankerStopWords), 5)
        whole == WholePhraseHit(question)
        kwspec == {KeywordSpecialty(keywords[i]) : i \in 1..Len(keywords)} \ {<<>>}
        matched_specialty == whole # 0 \/ kwspec # {}
        spec == IF whole # 0 THEN {<<"specialty", specialty_mapping[whole][2]>>}
                ELSE {<<"specialty", t>> : t \in kwspec}
        names == {<<"name", keywords[i]>> : i \in
                     {j \in 1..Len(keywords) : Len(keywords[j]) >= 2 /\ Len(keywords[j]) <= 4}}
        broad == IF matched_specialty THEN {}
                 ELSE UNION {ThreeFields(keywords[i]) : i \in 1..Len(keywords)}
    IN spec \cup names \cup broad

\* lines 219-334: the whole matching predicate, a disjunction of
\* (field, term) containment conditions
BuildQuery(intent, question, knowledge_list) ==
    LET dept_name == IntentText(intent, "recommended_department")
        disease_category == IntentText(intent, "disease_category")
        byDept == IF Len(dept_name) > 0 THEN ThreeFields(dept_name) ELSE {}
        byDisease == IF Len(disease_category) > 0 /\ disease_category # Unknown
                     THEN ThreeFields(disease_category) ELSE {}
        tags == UNION {Range(TagsOf(knowledge_list[i])) : i \in 1..Len(knowledge_list)}
        byTags == UNION {ThreeFields(t) : t \in tags \ GenericTags}
        q3 == byDept \cup byDisease \cup byTags
    IN IF q3 = {} /\ Len(question) > 0 THEN QuestionQuery(question) ELSE q3

Matches(d, query) == \E c \in query : IContains(d[c[1]], c[2])

\* a Case in which the last condition that holds decides (a variant)
CasePriorityLastMatch(d, conditions, default) ==
    LET Holds(i) ==
            IF conditions[i].test[1] = "iexact"
            THEN IExact(d[conditions[i].test[2]], conditions[i].test[3])
            ELSE IContains(d[conditions[i].test[2]], conditions[i].test[3])
    IN IF \E i \in 1..Len(conditions) : Holds(i)
       THEN conditions[CHOOSE i \in 1..Len(conditions) :
                           Holds(i) /\ \A j \in (i + 1)..Len(conditions) : ~Holds(j)].then
       ELSE default

\* a Case(When(...), ..., default): the rank of the first condition that holds
CasePriority(d, conditions, default) ==
    LET Holds(i) ==
            IF conditions[i].test[1] = "iexact"
            THEN IExact(d[conditions[i].test[2]], conditions[i].test[3])
            ELSE IContains(d[conditions[i].test[2]], conditions[i].test[3])
    IN IF \E i \in 1..Len(conditions) : Holds(i)
       THEN conditions[CHOOSE i \in 1..Len(conditions) :
                           Holds(i) /\ \A j \in 1..(i - 1) : ~Holds(j)].then
       ELSE default

When(kind, field, term, then) == [test |-> <<kind, field, term>>, then |-> then]

\* the person-name shaped words of the question (2 to 4 characters)
NameWords(words) ==
    LET NameLike(w) == Len(w) >= 2 /\ Len(w) <= 4 IN SelectSeq(words, NameLike)

\* lines 347-386: the conditions of the exact-match ordering
ExactConditions(intent, question) ==
    LET dept_name == IntentText(intent, "recommended_department")
        disease_category == IntentText(intent, "disease_category")
        hasDept == Len(dept_name) > 0
        hasDisease == Len(disease_category) > 0 /\ disease_category # Unknown
        names == NameWords(FindAllCjk(question))
    IN (IF hasDept THEN <<When("iexact", "specialty", dept_name, 1)>> ELSE <<>>)
       \o (IF hasDisease THEN <<When("iexact", "specialty", disease_category, 1)>> ELSE <<>>)
       \o (IF hasDept THEN <<When("icontains", "specialty", dept_name, 2)>> ELSE <<>>)
       \o (IF hasDisease THEN <<When("icontains", "specialty", disease_category, 2)>> ELSE <<>>)
       \o [i \in 1..Len(names) |-> When("icontains", "name", names[i], 2)]
       \o (IF hasDept THEN <<When("icontains", "introduction", dept_name, 3),
                             When("icontains", "experience", dept_name, 3)>> ELSE <<>>)

RECURSIVE WordConditions(_)
\* lines 432-442 / 487-497: per word, a specialty condition if the word is a
\* key of the mapping, then a name condition if it is 2 to 4 characters long
WordConditions(words) ==
    IF Len(words) = 0 THEN <<>>
    ELSE LET w == Head(words)
             k == FirstMapping({i \in 1..Len(specialty_keywords) : specialty_keywords[i] = w})
         IN (IF k # 0 THEN <<When("icontains", "specialty", specialty_mapping[k][2], 1)>>
             ELSE <<>>)
            \o (IF Len(w) >= 2 /\ Len(w) <= 4 THEN <<When("icontains", "name", w, 1)>>
                ELSE <<>>)
            \o WordConditions(Tail(words))

\* lines 404-442 / 459-497: the conditions of the fallback ordering
FallbackConditions(question) ==
    LET whole == WholePhraseHit(question)
    IN IF whole # 0
       THEN <<When("icontains", "specialty", specialty_mapping[whole][2], 1)>>
       ELSE WordConditions(FindAllCjk(question))

\* the ordering without the final id (a variant)
RankBeforeWithoutId(x, y, px, py) ==
    \/ px < py
    \/ px = py /\ x.is_online /\ ~y.is_online
    \/ px = py /\ x.is_online = y.is_online /\ x.score > y.score
    \/ px = py /\ x.is_online = y.is_online /\ x.score = y.score /\ x.reviews > y.reviews

\* ORDER BY match_priority, -is_online, -score, -reviews, id
RankBefore(x, y, px, py) ==
    \/ px < py
    \/ px = py /\ x.is_online /\ ~y.is_online
    \/ px = py /\ x.is_online = y.is_online /\ x.score > y.score
    \/ px = py /\ x.is_online = y.is_online /\ x.score = y.score /\ x.reviews > y.reviews
    \/ px = py /\ x.is_online = y.is_online /\ x.score = y.score /\ x.reviews = y.reviews
       /\ x.id < y.id

OrderDoctors(rows, conditions, default) ==
    LET keyed == [i \in 1..Len(rows) |->
                     [d |-> rows[i], p |-> CasePriority(rows[i], conditions, default)]]
        before == [i, j \in 1..Len(keyed) |->
                      RankBefore(keyed[i].d, keyed[j].d, keyed[i].p, keyed[j].p)]
        sorted == SortStable(keyed, before)
    IN [i \in 1..Len(rows) |-> sorted[i].d]

\* lines 515-538: the summary dict of one doctor
Summary(d, has_exact_match) ==
    LET part1 == IF Len(d.specialty) > 0
                 THEN <<<<"zhuan", "ke", ":">> \o d.specialty>> ELSE <<>>
        part2 == IF Len(d.introduction) > 0
                 THEN <<<<"jian3", "jie", ":">> \o d.introduction>> ELSE <<>>
        part3 == IF Len(d.experience) > 0
                 THEN <<<<"jing", "yan", ":">> \o d.experience>> ELSE <<>>
        parts == part1 \o part2 \o part3
        joined == IF Len(parts) = 0 THEN <<"zan", "wu", "xiang", "xi", "xin", "xi2">>
                  ELSE IF Len(parts) = 1 THEN parts[1]
                  ELSE IF Len(parts) = 2 THEN parts[1] \o <<";">> \o parts[2]
                  ELSE parts[1] \o <<";">> \o parts[2] \o <<";">> \o parts[3]
    IN [id |-> d.id, name |-> d.name,
        department_name |-> IF IsNull(d.hospital) THEN <<>> ELSE d.hospital,
        title |-> d.title, specialty |-> d.specialty, introduction |-> d.introduction,
        experience |-> d.experience, good_at |-> joined, is_online |-> d.is_online,
        score |-> d.score, reviews |-> d.reviews, is_exact_match |-> has_exact_match]

\* lines 515-540: the summaries of the doctors listed
Summaries(doctors_list, has_exact_match) ==
    [i \in 1..Len(doctors_list) |-> Summary(doctors_list[i], has_exact_match)]

\* the ranking without the cut to limit * 2 (a variant)
rank_by_query_uncut(query, intent, question, limit, docs) ==
    LET Hit(d) == Matches(d, query)
        matched_doctors == SelectSeq(docs, Hit)
        has_exact_match == query # {} /\ Len(matched_doctors) > 0
        ordered == IF has_exact_match
                   THEN OrderDoctors(matched_doctors, ExactConditions(intent, question), 4)
                   ELSE OrderDoctors(docs, FallbackConditions(question), 2)
    IN Summaries(ordered, has_exact_match)

\* the ranking with the matching doctors flagged but not selected (a variant)
rank_by_query_unfiltered(query, intent, question, limit, docs) ==
    LET Hit(d) == Matches(d, query)
        matched_doctors == SelectSeq(docs, Hit)
        has_exact_match == query # {} /\ Len(matched_doctors) > 0
        ordered == IF has_exact_match
                   THEN OrderDoctors(docs, ExactConditions(intent, question), 4)
                   ELSE OrderDoctors(docs, FallbackConditions(question), 2)
    IN Summaries(Take(ordered, limit * 2), has_exact_match)

\* lines 337-540: the doctors that match the query, or all doctors when
\* none does, ordered, cut to limit * 2 and summarized
rank_by_query(query, intent, question, limit, docs) ==
    LET Hit(d) == Matches(d, query)
        matched_doctors == SelectSeq(docs, Hit)
        has_exact_match == query # {} /\ Len(matched_doctors) > 0
        ordered == IF has_exact_match
                   THEN OrderDoctors(matched_doctors, ExactConditions(intent, question), 4)
                   ELSE OrderDoctors(docs, FallbackConditions(question), 2)
    IN Summaries(Take(ordered, limit * 2), has_exact_match)

\* lines 202-540: the rule-based ranking
rule_based_rank(intent, question, knowledge_list, limit, docs) ==
    IF Len(docs) = 0 THEN <<>>
    ELSE rank_by_query(BuildQuery(intent, question, knowledge_list), intent, question,
                       limit, docs)


(***************************************************************************)
(* Personalized recommendation: smart_recommendation.py, user_profile.py   *)
(* Floating-point scores are fixed-point numbers in units of 1/10000;      *)
(* Doctor.score is stored times ten; action weights are doubled, so that   *)
(* 1.5 is the integer 3.                                                   *)
(***************************************************************************)
RECURSIVE SumFrom(_, _)
SumFrom(s, i) == IF i > Len(s) THEN 0 ELSE s[i] + SumFrom(s, i + 1)

\* sum(...) over a sequence of numbers
Sum(s) == SumFrom(s, 1)

Abs(x) == IF x < 0 THEN 0 - x ELSE x

Min(a, b) == IF a <= b THEN a ELSE b

\* the elements of a set of positive numbers, ascending
Ascending(S) ==
    LET m == IF S = {} THEN 0 ELSE CHOOSE x \in S : \A y \in S : y <= x
        In(i) == i \in S
    IN SelectSeq([i \in 1..m |-> i], In)

RECURSIVE SqrtBetween(_, _, _)
SqrtBetween(x, lo, hi) ==
    IF lo >= hi THEN lo
    ELSE LET mid == (lo + hi + 1) \div 2
         IN IF mid * mid <= x THEN SqrtBetween(x, mid, hi)
            ELSE SqrtBetween(x, lo, mid - 1)

\* math.sqrt(x) of a fixed-point x with two more decimal places kept:
\* the integer part of 100 * sqrt(x)
Sqrt100(x) == SqrtBetween(x * 10000, 0, Min(x * 10000, 46340))

\* Doctor.Meta.ordering = ['-score', '-reviews']; rows that tie keep the
\* order of the table
DefaultOrder(docs) ==
    LET before == [i, j \in 1..Len(docs) |->
                      \/ docs[i].score > docs[j].score
                      \/ docs[i].score = docs[j].score /\ docs[i].reviews > docs[j].reviews]
    IN SortStable(docs, before)

\* smart_recommendation.py:40-45, doubled
ActionWeight2(action) ==
    IF action = "make_appointment" THEN 6
    ELSE IF action = "rate_doctor" THEN 4
    ELSE IF action = "click_doctor" THEN 2
    ELSE IF action = "view_doctor_detail" THEN 3
    ELSE 2

\* the doctors of the user's behaviors: filter(user_id=..., doctor__isnull=False)
DoctorIdsOf(user_id, behs) ==
    {behs[i].doctor : i \in {j \in 1..Len(behs) :
                                 behs[j].user = user_id /\ behs[j].doctor # 0}}

\* lines 33-48: user1_doctors[doctor_id], with doubled weights
UserDoctorScore(user_id, doctor_id, behs) ==
    Sum([i \in 1..Len(behs) |->
            IF behs[i].user = user_id /\ behs[i].doctor = doctor_id
            THEN behs[i].score * ActionWeight2(behs[i].action) ELSE 0])

\* lines 15-79
calculate_user_similarity(user1_id, user2_id, behs) ==
    LET user1_doctors == Ascending(DoctorIdsOf(user1_id, behs))
        user2_doctors == Ascending(DoctorIdsOf(user2_id, behs))
        common_doctors == Ascending(DoctorIdsOf(user1_id, behs)
                                        \cap DoctorIdsOf(user2_id, behs))
        dot_product ==
            Sum([i \in 1..Len(common_doctors) |->
                    UserDoctorScore(user1_id, common_doctors[i], behs)
                        * UserDoctorScore(user2_id, common_doctors[i], behs)])
        squares1 == Sum([i \in 1..Len(user1_doctors) |->
                            UserDoctorScore(user1_id, user1_doctors[i], behs)
                                * UserDoctorScore(user1_id, user1_doctors[i], behs)])
        squares2 == Sum([i \in 1..Len(user2_doctors) |->
                            UserDoctorScore(user2_id, user2_doctors[i], behs)
                                * UserDoctorScore(user2_id, user2_doctors[i], behs)])
    IN IF Len(common_doctors) = 0 THEN 0
       ELSE IF squares1 = 0 \/ squares2 = 0 THEN 0
       ELSE (((dot_product * 10000) \div Sqrt100(squares1)) * 10000) \div Sqrt100(squares2)

min_similarity == 1000
similar_users_limit == 20

\* lines 82-111
find_similar_users(user_id, limit, behs) ==
    LET other_user_ids ==
            Ascending({behs[i].user : i \in 1..Len(behs)} \ {user_id})
        all == [i \in 1..Len(other_user_ids) |->
                   [user_id |-> other_user_ids[i],
                    similarity |-> calculate_user_similarity(user_id, other_user_ids[i], behs)]]
        Near(u) == u.similarity >= min_similarity
    IN Take(SortDescending(SelectSeq(all, Near), "similarity"), limit)

\* lines 133-180: the doctors the similar users liked, by score
recommend_from_similar_users(similar_users, limit, behs, docs) ==
    LET Liked(b) == /\ b.doctor # 0
                    /\ b.action \in {"make_appointment", "rate_doctor", "click_doctor"}
        Of(u) == {i \in 1..Len(behs) : behs[i].user = u.user_id /\ Liked(behs[i])}
        doctor_ids == UNION {{behs[i].doctor : i \in Of(similar_users[k])} :
                                k \in 1..Len(similar_users)}
        From(u, d) ==
            Sum([i \in 1..Len(behs) |->
                    IF i \in Of(u) /\ behs[i].doctor = d
                    THEN behs[i].score * ActionWeight2(behs[i].action) * u.similarity
                    ELSE 0])
        doctor_scores(d) ==
            Sum([k \in 1..Len(similar_users) |-> From(similar_users[k], d)]) \div 2
        Scored(d) == d.id \in doctor_ids
        found == SelectSeq(DefaultOrder(docs), Scored)
        recommendations == [i \in 1..Len(found) |->
                               [doctor |-> found[i], cf_score |-> doctor_scores(found[i].id)]]
    IN Take(SortDescending(recommendations, "cf_score"), limit)

\* lines 114-180
collaborative_filtering_recommend(user_id, limit, behs, docs) ==
    recommend_from_similar_users(find_similar_users(user_id, similar_users_limit, behs),
                                 limit, behs, docs)

\* models.py:200-205: specialty_preference of a new UserProfile is {}
NewProfile ==
    [specialty_preference |-> <<>>, hospital_preference |-> <<>>,
     time_preference |-> NullText, doctor_feature_preference |-> <<>>,
     price_sensitivity |-> 5000]

\* models.py:235 updated_at = DateTimeField(auto_now=True): a row that is
\* created is stamped with the time t; stamps maps the stored rows to their
\* stamp before the call, after is the table after it
auto_now(after, stamps, t) ==
    [u \in DOMAIN after |-> IF u \in DOMAIN stamps THEN stamps[u] ELSE t]

\* user_profile.py:237-254: UserProfile.objects.get_or_create(user=user).
\* profs maps the users that have a profile to their profile.
get_user_profile(user, profs) ==
    IF user \in DOMAIN profs THEN profs
    ELSE [u \in DOMAIN profs \cup {user} |-> IF u = user THEN NewProfile ELSE profs[u]]

\* lines 183-279.  users are the ids of the stored users.  Result: the
\* recommendations and the stored profiles after the call.
content_based_recommend(user_id, limit, behs, docs, profs, users) ==
    LET after == get_user_profile(user_id, profs)
        user_doctor_ids == DoctorIdsOf(user_id, behs)
        Mine(d) == d.id \in user_doctor_ids
        user_doctors == SelectSeq(docs, Mine)
        has_history == user_doctor_ids # {}
        specialty_counts ==
            IF has_history
            THEN [s \in {user_doctors[i].specialty :
                            i \in {j \in 1..Len(user_doctors) :
                                       Len(user_doctors[j].specialty) > 0}} |->
                     Cardinality({i \in 1..Len(user_doctors) : user_doctors[i].specialty = s})]
            ELSE after[user_id].specialty_preference
        \* the averages as sum and count
        n == IF has_history /\ Len(user_doctors) > 0 THEN Len(user_doctors) ELSE 1
        sum_score == IF ~has_history THEN 40
                     ELSE Sum([i \in 1..Len(user_doctors) |-> user_doctors[i].score])
        sum_reviews == IF ~has_history THEN 100
                       ELSE Sum([i \in 1..Len(user_doctors) |-> user_doctors[i].reviews])
        max_count == CHOOSE c \in {specialty_counts[s] : s \in DOMAIN specialty_counts} :
                         \A s \in DOMAIN specialty_counts : specialty_counts[s] <= c
        specialty_match(d) ==
            IF d.specialty \in DOMAIN specialty_counts
            THEN specialty_counts[d.specialty] ELSE 0
        cb_score(d) ==
            (IF Len(d.specialty) > 0 /\ DOMAIN specialty_counts # {}
                  /\ specialty_match(d) > 0
             THEN (specialty_match(d) * 5000) \div max_count ELSE 0)
            + (3000 - (60 * Abs(d.score * n - sum_score)) \div n)
            + (2000 - Min((2 * Abs(d.reviews * n - sum_reviews)) \div n, 2000))
        Unseen(d) == d.id \notin user_doctor_ids
        all_doctors == SelectSeq(DefaultOrder(docs), Unseen)
        scored == [i \in 1..Len(all_doctors) |->
                      [doctor |-> all_doctors[i], cb_score |-> cb_score(all_doctors[i])]]
        Positive(r) == r.cb_score > 0
    IN IF user_id \notin users
       THEN [recs |-> <<>>, profiles |-> profs]
       ELSE [recs |-> Take(SortDescending(SelectSeq(scored, Positive), "cb_score"), limit),
             profiles |-> after]

\* what can fail in one call of the personalized path: nothing, the
\* behavior count query, the collaborative filter, the content-based
\* recommender after it has fetched the profile, the result conversion
Faults == {"none", "count", "cf", "cb", "convert"}

\* a merge in which the base score counts the rank index from 1 (a variant)
merge_recommendations_rank_from_one(cf_recommendations, cb_recommendations, base_recommendations, limit, docs) ==
    LET cf_ids == [i \in 1..Len(cf_recommendations) |-> cf_recommendations[i].doctor.id]
        cb_ids == [i \in 1..Len(cb_recommendations) |-> cb_recommendations[i].doctor.id]
        base_ids == [i \in 1..Len(base_recommendations) |-> base_recommendations[i].id]
        NewInCb(d) == d \notin Range(cf_ids)
        NewInBase(d) == d \notin Range(cf_ids) \cup Range(cb_ids)
        \* the keys of doctor_scores in insertion order
        keys == cf_ids \o SelectSeq(cb_ids, NewInCb) \o SelectSeq(base_ids, NewInBase)
        Place(ids, d) == CHOOSE i \in 1..Len(ids) : ids[i] = d
        cf_score(d) == IF d \in Range(cf_ids)
                       THEN cf_recommendations[Place(cf_ids, d)].cf_score ELSE 0
        cb_score(d) == IF d \in Range(cb_ids)
                       THEN cb_recommendations[Place(cb_ids, d)].cb_score ELSE 0
        base_score(d) ==
            IF d \in Range(base_ids)
            THEN ((Len(base_ids) - Place(base_ids, d)) * 10000) \div Len(base_ids)
            ELSE 0
        Row(d) == CHOOSE i \in 1..Len(docs) : docs[i].id = d
        Scores(d) ==
            [doctor |-> docs[Row(d)],
             score |-> (cf_score(d) * 4 + cb_score(d) * 4 + base_score(d) * 2) \div 10,
             cf_score |-> cf_score(d),
             cb_score |-> cb_score(d),
             base_score |-> base_score(d)]
        final_recommendations == [i \in 1..Len(keys) |-> Scores(keys[i])]
    IN Take(SortDescending(final_recommendations, "score"), limit)

\* lines 315-383: the three lists merged into one score per doctor
merge_recommendations(cf_recommendations, cb_recommendations, base_recommendations, limit, docs) ==
    LET cf_ids == [i \in 1..Len(cf_recommendations) |-> cf_recommendations[i].doctor.id]
        cb_ids == [i \in 1..Len(cb_recommendations) |-> cb_recommendations[i].doctor.id]
        base_ids == [i \in 1..Len(base_recommendations) |-> base_recommendations[i].id]
        NewInCb(d) == d \notin Range(cf_ids)
        NewInBase(d) == d \notin Range(cf_ids) \cup Range(cb_ids)
        \* the keys of doctor_scores in insertion order
        keys == cf_ids \o SelectSeq(cb_ids, NewInCb) \o SelectSeq(base_ids, NewInBase)
        Place(ids, d) == CHOOSE i \in 1..Len(ids) : ids[i] = d
        cf_score(d) == IF d \in Range(cf_ids)
                       THEN cf_recommendations[Place(cf_ids, d)].cf_score ELSE 0
        cb_score(d) == IF d \in Range(cb_ids)
                       THEN cb_recommendations[Place(cb_ids, d)].cb_score ELSE 0
        base_score(d) ==
            IF d \in Range(base_ids)
            THEN ((Len(base_ids) - (Place(base_ids, d) - 1)) * 10000) \div Len(base_ids)
            ELSE 0
        Row(d) == CHOOSE i \in 1..Len(docs) : docs[i].id = d
        Scores(d) ==
            [doctor |-> docs[Row(d)],
             score |-> (cf_score(d) * 4 + cb_score(d) * 4 + base_score(d) * 2) \div 10,
             cf_score |-> cf_score(d),
             cb_score |-> cb_score(d),
             base_score |-> base_score(d)]
        final_recommendations == [i \in 1..Len(keys) |-> Scores(keys[i])]
    IN Take(SortDescending(final_recommendations, "score"), limit)

\* lines 300-383, given the results of the three recommenders: cb holds the
\* content-based recommendations and the stored profiles after that call
hybrid_outcome(cf_recommendations, cb, base_recommendations, limit, docs, profs, fault) ==
    IF fault = "cf"
    THEN [exc |-> TRUE, recs |-> <<>>, profiles |-> profs, ran |-> <<"cf">>]
    ELSE IF fault = "cb"
    THEN [exc |-> TRUE, recs |-> <<>>, profiles |-> cb.profiles, ran |-> <<"cf", "cb">>]
    ELSE [exc |-> FALSE,
          recs |-> merge_recommendations(cf_recommendations, cb.recs,
                                         base_recommendations, limit, docs),
          profiles |-> cb.profiles, ran |-> <<"cf", "cb", "base">>]

\* lines 282-383.  Result: the exception flag, the recommendations, the
\* stored profiles after the call and the recommenders that were run.
hybrid_recommend(user_id, intent, question, limit, behs, docs, profs, users, fault) ==
    hybrid_outcome(collaborative_filtering_recommend(user_id, limit * 2, behs, docs),
                   content_based_recommend(user_id, limit * 2, behs, docs, profs, users),
                   rule_based_rank(intent, question, <<>>, limit * 2, docs),
                   limit, docs, profs, fault)

min_behaviors == 20

\* retrieval.py:144: UserBehavior.objects.filter(user_id=user_id).count()
behavior_count(user_id, behs) ==
    Cardinality({i \in 1..Len(behs) : behs[i].user = user_id})

\* a guard that never looks at the behavior count
smart_enabled_unguarded(use_smart_recommendation, user_id, behs, fault) ==
    use_smart_recommendation /\ user_id # 0

\* retrieval.py:138-152: whether the personalized path is entered.  user_id
\* 0 is None.
smart_enabled(use_smart_recommendation, user_id, behs, fault) ==
    /\ use_smart_recommendation /\ user_id # 0
    /\ fault # "count"
    /\ behavior_count(user_id, behs) >= min_behaviors

\* retrieval.py:166-193: the summary dict of one smart recommendation
SmartSummary(rec) ==
    Summary(rec.doctor, FALSE) @@ [recommend_score |-> rec.score]

\* retrieval.py:165-194: the conversion of the smart recommendations
SmartSummaries(recs) == [i \in 1..Len(recs) |-> SmartSummary(recs[i])]

\* a personalized path whose exceptions leave the function
smart_or_rule_uncaught(enabled, h, rule, profs, fault) ==
    IF enabled
    THEN IF h.exc \/ (fault = "convert" /\ Len(h.recs) > 0)
         THEN [exc |-> TRUE, result |-> <<>>, path |-> "smart", profiles |-> h.profiles,
               ran |-> h.ran]
         ELSE IF Len(h.recs) > 0
         THEN [exc |-> FALSE, result |-> SmartSummaries(h.recs), path |-> "smart",
               profiles |-> h.profiles, ran |-> h.ran]
         ELSE [exc |-> FALSE, result |-> rule, path |-> "rule",
               profiles |-> h.profiles, ran |-> h.ran \o <<"rule">>]
    ELSE [exc |-> FALSE, result |-> rule, path |-> "rule", profiles |-> profs,
          ran |-> <<"rule">>]

\* retrieval.py:152-540, given whether the personalized path is entered, the
\* outcome h of hybrid_recommend and the rule-based ranking: the converted
\* smart recommendations if the path is entered, nothing in it raises and
\* the list is not empty, the rule-based ranking otherwise
smart_or_rule(enabled, h, rule, profs, fault) ==
    IF enabled
    THEN IF ~(h.exc \/ (fault = "convert" /\ Len(h.recs) > 0)) /\ Len(h.recs) > 0
         THEN [exc |-> FALSE, result |-> SmartSummaries(h.recs), path |-> "smart",
               profiles |-> h.profiles, ran |-> h.ran]
         ELSE [exc |-> FALSE, result |-> rule, path |-> "rule",
               profiles |-> h.profiles, ran |-> h.ran \o <<"rule">>]
    ELSE [exc |-> FALSE, result |-> rule, path |-> "rule", profiles |-> profs,
          ran |-> <<"rule">>]

\* retrieval.py:108-540.  Result: the exception flag, the list returned,
\* the path that produced it, the stored profiles after the call and the
\* recommenders that were run.
retrieve_doctors_by_intent(intent, question, knowledge_list, limit, user_id, use_smart_recommendation, behs, docs, profs, users, fault) ==
    smart_or_rule(smart_enabled(use_smart_recommendation, user_id, behs, fault),
                  hybrid_recommend(user_id, intent, question, limit, behs, docs, profs,
                                   users, fault),
                  rule_based_rank(intent, question, knowledge_list, limit, docs),
                  profs, fault)


(***************************************************************************)
(* The chat turn: AIChatView.post                                          *)
(***************************************************************************)
\* the default intent of views.py:86-90 and 93-97
DefaultIntent ==
    [kind |-> "dict", disease_category |-> JStr(Unknown),
     recommended_department |-> JNull, priority_level |-> JStr(<<"info">>)]

\* a JSON value that is not an object: a list, a string, a number, null
NonDict(kind) ==
    [kind |-> kind, disease_category |-> JAbsent,
     recommended_department |-> JAbsent, priority_level |-> JAbsent]

\* lines 78-97: intent extraction.  call is what call_llm does: it raises
\* LLMCallError, or returns a text that json.loads rejects, or a text that
\* parses to the JSON value call.value
extract_intent(call) ==
    IF call.kind = "llm_error" THEN DefaultIntent
    ELSE IF call.kind = "not_json" THEN DefaultIntent
    ELSE call.value

\* the apology of views.py:168, without the error detail
ApologyText ==
    <<"bao", "qian", ",", "A", "fu2", "wu4", "zan", "shi2", "bu", "ke_y", "yong", ",",
      "qing", "shao", "hou", "chong", "shi4", ",", "huo", "zhi2", "jie1", "lian", "xi4",
      "xian", "xia", "ya", "ke", "yi1", "sheng", "jiu4", "zhen", ".">>

\* lines 159-168: answer generation
generate_answer(call) == IF call.kind = "llm_error" THEN ApologyText ELSE call.text

recent_log_window == 20

\* the doctor ids of all the user's logs of the same intent, however old
used_doctor_ids_unbounded(user, intent, logs) ==
    LET Mine(l) == l.user = user
        mine == SelectSeq(logs, Mine)
        Same(l) == /\ l.structured_intent.kind = "dict"
                   /\ JGet(l.structured_intent, "disease_category")
                          = JGet(intent, "disease_category")
                   /\ JGet(l.structured_intent, "recommended_department")
                          = JGet(intent, "recommended_department")
    IN UNION {{mine[i].recommended_doctors[k].id :
                   k \in 1..Len(mine[i].recommended_doctors)} :
              i \in {j \in 1..Len(mine) : Same(mine[j])}}

\* lines 118-134: the doctor ids of the user's recent logs of the same intent
used_doctor_ids(user, intent, logs) ==
    LET Mine(l) == l.user = user
        mine == SelectSeq(logs, Mine)
        n == Len(mine)
        recent_logs == SubSeq(mine, IF n > recent_log_window
                                    THEN n - recent_log_window + 1 ELSE 1, n)
        Same(l) == /\ l.structured_intent.kind = "dict"
                   /\ JGet(l.structured_intent, "disease_category")
                          = JGet(intent, "disease_category")
                   /\ JGet(l.structured_intent, "recommended_department")
                          = JGet(intent, "recommended_department")
    IN UNION {{recent_logs[i].recommended_doctors[k].id :
                   k \in 1..Len(recent_logs[i].recommended_doctors)} :
              i \in {j \in 1..Len(recent_logs) : Same(recent_logs[j])}}

\* a deduplication without the escape hatch of lines 142-144
deduplicate_no_fallback(recommended_doctors_all, used) ==
    LET Fresh(d) == d.id \notin used
    IN SelectSeq(recommended_doctors_all, Fresh)

\* lines 136-146: drop the used doctors, unless that leaves nothing
deduplicate(recommended_doctors_all, used) ==
    LET Fresh(d) == d.id \notin used
        filtered_doctors == SelectSeq(recommended_doctors_all, Fresh)
    IN IF Len(filtered_doctors) = 0 /\ Len(recommended_doctors_all) > 0
       THEN recommended_doctors_all
       ELSE filtered_doctors

\* lines 181-191
name_patterns(name) ==
    << name,
       name \o <<"yi1", "sheng">>,
       name \o <<"zhu3", "ren4">>,
       name \o <<"yi1", "shi1">>,
       name \o <<"da", "fu">>,
       <<"tui", "jian">> \o name,
       <<"wei", "nin", "tui", "jian">> \o name,
       <<"wo", "wei", "nin", "tui", "jian">> \o name,
       <<"tui", "jian", "nin">> \o name >>

\* line 174: {d.get('name'): d for d in recommended_doctors if d.get('name')}:
\* one entry per name, at the place of the name's first doctor, holding the
\* name's last doctor
doctor_names(recommended_doctors) ==
    LET n == Len(recommended_doctors)
        Named(i) == Len(recommended_doctors[i].name) > 0
        First(i) == Named(i) /\ \A j \in 1..(i - 1) :
                        recommended_doctors[j].name # recommended_doctors[i].name
        Last(i) == CHOOSE j \in i..n :
                       /\ recommended_doctors[j].name = recommended_doctors[i].name
                       /\ \A k \in (j + 1)..n :
                              recommended_doctors[k].name # recommended_doctors[i].name
        RECURSIVE Build(_)
        Build(i) == IF i > n THEN <<>>
                    ELSE IF First(i) THEN <<recommended_doctors[Last(i)]>> \o Build(i + 1)
                    ELSE Build(i + 1)
    IN Build(1)

\* a reconciliation that reports every candidate offered to the generator
reconcile_all_candidates(recommended_doctors, answer) == recommended_doctors

\* lines 170-220: the doctors the answer names
reconcile(recommended_doctors, answer) ==
    IF Len(recommended_doctors) > 0 /\ Len(answer) > 0
    THEN LET Mentioned(d) ==
                 \E i \in 1..Len(name_patterns(d.name)) :
                     Contains(answer, name_patterns(d.name)[i])
         IN SelectSeq(doctor_names(recommended_doctors), Mentioned)
    ELSE <<>>

\* a serializers.CharField (allow_blank off, whitespace trimmed) accepts t
CharFieldValid(t) == Len(Strip(t)) > 0

SuggestionLevels == {<<"info">>, <<"normal">>, <<"urgent">>}

\* line 242: intent.get("priority_level", "info")
suggestion_level(intent) ==
    IF intent.priority_level.k = "absent" THEN JStr(<<"info">>) ELSE intent.priority_level

\* lines 244-245: AIChatResponseSerializer(data=resp_data).is_valid
response_valid(answer, ai_recommended_doctors, level) ==
    /\ CharFieldValid(answer)
    /\ \A i \in 1..Len(ai_recommended_doctors) :
           /\ CharFieldValid(ai_recommended_doctors[i].name)
           /\ CharFieldValid(ai_recommended_doctors[i].department_name)
           /\ CharFieldValid(ai_recommended_doctors[i].title)
           /\ CharFieldValid(ai_recommended_doctors[i].good_at)
    /\ level.k = "str" /\ level.v \in SuggestionLevels

Stages == <<"received", "intent_extracted", "knowledge_retrieved", "doctors_candidated",
            "doctors_deduplicated", "answer_generated", "answer_reconciled", "persisted">>

chat_limit == 3

\* lines 110-247, once the knowledge k has been retrieved and the
\* candidates all have been ranked.  The result holds what the turn wrote
\* and what it answered: status "ok" is the success response, "invalid" the
\* error response after serializer validation failed, "crash" an exception
\* that left the handler.
chat_respond(user, intent, answer, k, all, logs) ==
    LET level == suggestion_level(intent)
        user_message == [user |-> user, role |-> "user"]
        reply == [user |-> user, role |-> "assistant"]
        used == used_doctor_ids(user, intent, logs)
        recommended_doctors == deduplicate(all, used)
        ai_recommended_doctors == reconcile(recommended_doctors, answer)
        log == [user |-> user, structured_intent |-> intent,
                recommended_doctors |-> ai_recommended_doctors]
    IN IF intent.kind # "dict"
       THEN [status |-> "crash", stages |-> SubSeq(Stages, 1, 4),
             intent |-> intent, messages |-> <<user_message>>, logs |-> <<>>,
             global |-> k.global, knowledge |-> k.arts, candidates_all |-> all,
             used |-> {}, candidates |-> <<>>, answer |-> <<>>,
             recommended_doctors |-> <<>>, suggestion_level |-> JNull]
       ELSE [status |-> IF response_valid(answer, ai_recommended_doctors, level)
                        THEN "ok" ELSE "invalid",
             stages |-> Stages, intent |-> intent,
             messages |-> <<user_message, reply>>, logs |-> <<log>>,
             global |-> k.global, knowledge |-> k.arts, candidates_all |-> all,
             used |-> used, candidates |-> recommended_doctors, answer |-> answer,
             recommended_doctors |-> ai_recommended_doctors,
             suggestion_level |-> level]

\* the turn with the candidates ranked for the requesting user (a variant)
chat_recommend_for_user(user, message, intent, answer, k, docs, logs, behs, profs) ==
    chat_respond(user, intent, answer, k,
                 retrieve_doctors_by_intent(intent, message, k.arts, chat_limit, user, TRUE,
                                            behs, docs, profs, {user}, "none").result,
                 logs)

\* lines 102-247, once the knowledge k has been retrieved: the candidates
\* are ranked without a user id (lines 103-108)
chat_recommend(user, message, intent, answer, k, docs, logs, behs, profs) ==
    chat_respond(user, intent, answer, k,
                 retrieve_doctors_by_intent(intent, message, k.arts, chat_limit, 0, TRUE,
                                            behs, docs, profs, {user}, "none").result,
                 logs)

\* lines 51-247: one chat turn
chat_post(user, message, intent_call, emb, answer_call, arts, docs, global, logs, behs, profs) ==
    chat_recommend(user, message, extract_intent(intent_call), generate_answer(answer_call),
                   retrieve_knowledge_snippets(message, chat_limit, TRUE, arts, global, emb),
                   docs, logs, behs, profs)


(***************************************************************************)
(* Data of the knowledge retrieval specification                           *)
(***************************************************************************)
MaxLimit == 2

Article(id, title, pattern, content, tags, has_emb, emb, active, upd) ==
    [id |-> id, title |-> title, question_pattern |-> pattern, content |-> content,
     tags |-> tags, has_embedding |-> has_emb, embedding |-> emb,
     is_active |-> active, updated_at |-> upd]

TxtJiaozheng == <<"jiao", "zheng">>
TxtZhengji == <<"zheng", "ji">>
TxtXiya == <<"xi", "ya">>
Comma == <<",">>

ArtBraces == Article(1, <<"ya", "chi">> \o TxtJiaozheng, <<"jiao", "zheng", "duo", "jiu">>,
                     TxtZhengji \o <<"zhi4", "liao">>, TxtZhengji \o Comma \o TxtJiaozheng,
                     TRUE, <<1, 0>>, TRUE, 1)
ArtScaling == Article(2, TxtXiya, NullText, TxtXiya \o <<" ", "A">>,
                      <<"kou", "qiang", "nei", "ke">>, TRUE, <<3, 4>>, TRUE, 2)
ArtRetired == Article(3, <<"ya", "chi">> \o TxtJiaozheng, TxtJiaozheng, TxtXiya,
                      TxtZhengji, TRUE, <<1, 0>>, FALSE, 3)
ArtPlain == Article(4, TxtJiaozheng, NullText, <<"a", "1">>, NullText,
                    FALSE, <<>>, TRUE, 4)
ArtBoth == Article(5, <<"ya", "zhou">>, TxtXiya, TxtJiaozheng, <<"ya", "zhou">>,
                   TRUE, <<1, 1>>, TRUE, 5)
ArtTie == Article(6, TxtZhengji, NullText, TxtJiaozheng, TxtZhengji,
                  TRUE, <<2, 0>>, TRUE, 6)
ArtEmptyVec == Article(7, TxtXiya, NullText, TxtXiya, NullText,
                       TRUE, <<>>, TRUE, 7)
ArtShortVec == Article(8, TxtJiaozheng, NullText, TxtXiya, NullText,
                       TRUE, <<1>>, TRUE, 8)

ArticleTables == {
    <<>>,
    <<ArtBraces, ArtScaling, ArtRetired, ArtPlain, ArtBoth, ArtTie>>,
    <<ArtRetired>>,
    <<ArtPlain, ArtEmptyVec>>,
    <<ArtBraces, ArtShortVec, ArtBoth>>,
    <<ArtRetired, ArtPlain, ArtBoth>> }

QBraces == <<"wo", "ya", "chi", "jiao", "zheng", "xu", "yao", "duo", "jiu">>
QScaling == <<"xi", "ya", " ", "A", "1", "?">>
QHowTo == <<"zen", "me", "ban">>
QHello == <<"ni", "hao">>

Questions == {QBraces, QScaling, QHowTo, QHello}

\* model.encode(text): the provider is a fixed function of the text
Encode(question) ==
    IF question = QBraces THEN <<1, 0>>
    ELSE IF question = QScaling THEN <<0, 1>>
    ELSE IF question = QHowTo THEN <<0, 0>>
    ELSE <<-1, 0>>

\* what the embedding provider does during one call
EmbeddingOutcomes(question) ==
    [load : LoadOutcomes, encode : {"ok", "raise"}, qvec : {Encode(question)}]

NoCall == [op |-> "none"]

NThreads == 3
MaxLoads == 3
Threads == 1..NThreads

(***************************************************************************)
(* Specification of the knowledge retriever                                *)
(***************************************************************************)
\* nothing has been said yet
ChatEmpty ==
    /\ chat_messages = <<>>
    /\ rec_logs = <<>>

\* no request thread is inside get_embedding_model
ThreadsIdle ==
    /\ pc = [t \in Threads |-> "idle"]
    /\ ret = [t \in Threads |-> "none"]
    /\ load_count = 0

\* no medical record is stored and no rating request is in flight
NoRatings ==
    /\ records = <<>>
    /\ local = [t \in Threads |-> "none"]

\* no behavior has been recorded and no profile computed
NoPersonalData ==
    /\ behaviors = <<>>
    /\ profiles = <<>>
    /\ updated_at = <<>>
    /\ appointments = <<>>
    /\ now = 0
    /\ recomputed_at = <<>>

InitRetrieve ==
    /\ articles \in ArticleTables
    /\ doctors = <<>>
    /\ ChatEmpty
    /\ embedding_model = "None"
    /\ ThreadsIdle
    /\ NoRatings
    /\ out = NoCall
    /\ NoPersonalData

Retrieve(question, limit, use_vector, emb) ==
    LET r == retrieve_knowledge_snippets(question, limit, use_vector,
                                         articles, embedding_model, emb)
    IN /\ out' = [op |-> "retrieve", question |-> question, limit |-> limit,
                  use_vector |-> use_vector, emb |-> emb,
                  global |-> embedding_model, r |-> r]
       /\ embedding_model' = out'.r.global
       /\ UNCHANGED <<articles, doctors, chat_messages, rec_logs, pc, ret, load_count, behaviors, profiles,
                   updated_at, appointments, now, recomputed_at,
                   records, local>>

NextRetrieve ==
    \E question \in Questions, limit \in 0..MaxLimit, use_vector \in BOOLEAN :
        \E emb \in EmbeddingOutcomes(question) :
            Retrieve(question, limit, use_vector, emb)

SpecRetrieve == InitRetrieve /\ [][NextRetrieve]_vars

(***************************************************************************)
(* Data of the chat specifications                                         *)
(***************************************************************************)
MaxTurns == 2
MaxFollowUps == 3

Users == {1, 2}

Doctor(id, name, title, specialty, introduction, experience, online, score, reviews, hospital) ==
    [id |-> id, name |-> name, title |-> title, specialty |-> specialty,
     introduction |-> introduction, experience |-> experience, is_online |-> online,
     score |-> score, reviews |-> reviews, hospital |-> hospital]

NameZhang == <<"zhang", "san">>
NameLi == <<"li", "si">>
NameWang == <<"wang", "wu">>
NameZhao == <<"zhao", "liu">>
Clinic == <<"kou", "qiang", "yi1", "yuan">>

\* scores are stored times ten
DocZhang == Doctor(1, NameZhang, <<"zhu3", "ren4">>, TxtZhengji,
                   <<"shan", "chang">> \o TxtJiaozheng, <<>>, TRUE, 48, 10, Clinic)
DocLi == Doctor(2, NameLi, <<"yi1", "shi1">>, TxtZhengji, <<>>, <<>>, FALSE, 45, 20, Clinic)
DocWang == Doctor(3, NameWang, <<"yi1", "shi1">>, <<"kou", "qiang", "wai", "ke">>,
                  <<"ba", "ya">>, <<"ba", "ya">>, TRUE, 40, 5, Clinic)
DocZhao == Doctor(4, NameZhao, <<"yi1", "shi1">>, <<"ya", "zhou">>, <<>>, <<>>,
                  FALSE, 40, 5, NullText)

ChatDoctors == <<DocZhang, DocLi, DocWang, DocZhao>>
ChatArticles == <<ArtBraces, ArtScaling, ArtRetired, ArtPlain, ArtBoth, ArtTie>>

ChatQuestions == {QBraces, QHello}

IntentBraces ==
    [kind |-> "dict", disease_category |-> JStr(TxtZhengji),
     recommended_department |-> JStr(TxtZhengji \o <<"ke">>),
     priority_level |-> JStr(<<"normal">>)]
IntentHigh == [IntentBraces EXCEPT !.priority_level = JStr(<<"high">>)]
IntentEmptyObject ==
    [kind |-> "dict", disease_category |-> JAbsent,
     recommended_department |-> JAbsent, priority_level |-> JAbsent]

LlmError == [kind |-> "llm_error", value |-> NonDict("none"), text |-> <<>>]
NotJson == [kind |-> "not_json", value |-> NonDict("none"), text |-> <<>>]
Json(v) == [kind |-> "json", value |-> v, text |-> <<>>]
Text(t) == [kind |-> "text", value |-> NonDict("none"), text |-> t]

\* what the intent call of a turn may do
IntentCalls ==
    {LlmError, NotJson, Json(NonDict("list")), Json(IntentBraces), Json(IntentHigh),
     Json(IntentEmptyObject)}

AnsZhang == <<"tui", "jian">> \o NameZhang \o <<"yi1", "sheng">>
AnsLiWang == NameLi \o <<",">> \o NameWang
AnsZhao == <<"wei", "nin", "tui", "jian">> \o NameZhao
AnsAdvice == <<"jian4", "yi4", "dao", "kou", "qiang", "ke", "jiu4", "zhen">>

\* what the answer call of a turn may do
AnswerCalls ==
    {LlmError, Text(<<>>), Text(AnsZhang), Text(AnsLiWang), Text(AnsZhao), Text(AnsAdvice)}

\* the two calls of one turn: every intent call with an answer that names a
\* doctor, every answer call with a well-formed intent, and the default
\* intent with an answer that names the doctor without a hospital
ChatCalls ==
    (IntentCalls \X {Text(AnsZhang)})
        \cup ({Json(IntentBraces)} \X AnswerCalls)
        \cup {<<NotJson, Text(AnsZhao)>>}

\* the embedding provider loads for the first question and fails to load
\* for the second
ChatEmbeddingOutcome(question) ==
    [load |-> IF question = QBraces THEN "load_ok" ELSE "load_fail",
     encode |-> "ok", qvec |-> Encode(question)]

\* the number of chat turns made so far
TurnsMade == Cardinality({i \in 1..Len(chat_messages) : chat_messages[i].role = "user"})

(***************************************************************************)
(* Specification of the chat: turns with every outcome of the external     *)
(* calls                                                                   *)
(***************************************************************************)
InitChat ==
    /\ articles = ChatArticles
    /\ doctors = ChatDoctors
    /\ ChatEmpty
    /\ embedding_model = "None"
    /\ ThreadsIdle
    /\ NoRatings
    /\ out = NoCall
    /\ NoPersonalData

ChatTurn(user, message, intent_call, emb, answer_call) ==
    LET r == chat_post(user, message, intent_call, emb, answer_call,
                       articles, doctors, embedding_model, rec_logs, behaviors, profiles)
    IN /\ out' = [op |-> "chat", user |-> user, message |-> message,
                  intent_call |-> intent_call, emb |-> emb,
                  answer_call |-> answer_call, r |-> r]
       /\ chat_messages' = chat_messages \o out'.r.messages
       /\ rec_logs' = rec_logs \o out'.r.logs
       /\ embedding_model' = out'.r.global
       /\ UNCHANGED <<articles, doctors, pc, ret, load_count, behaviors, profiles,
                   updated_at, appointments, now, recomputed_at,
                   records, local>>

NextChat ==
    /\ TurnsMade < MaxTurns
    /\ \E user \in Users, message \in ChatQuestions, calls \in ChatCalls :
           ChatTurn(user, message, calls[1], ChatEmbeddingOutcome(message), calls[2])

Spec == InitChat /\ [][NextChat]_vars

(***************************************************************************)
(* Specification of follow-up turns: the external calls succeed, the       *)
(* users ask again and again                                               *)
(***************************************************************************)
FollowUpIntentCalls == {NotJson, Json(IntentBraces)}
FollowUpAnswerCalls == {Text(AnsZhang), Text(AnsLiWang), Text(AnsAdvice)}

NextFollowUp ==
    /\ TurnsMade < MaxFollowUps
    /\ \E user \in Users, intent_call \in FollowUpIntentCalls,
          answer_call \in FollowUpAnswerCalls :
           ChatTurn(user, QHello, intent_call, ChatEmbeddingOutcome(QHello), answer_call)

SpecFollowUp == InitChat /\ [][NextFollowUp]_vars


(***************************************************************************)
(* Specification of the doctor recommenders called with a user id          *)
(***************************************************************************)
Behavior(user, action, doctor, score) ==
    [user |-> user, action |-> action, doctor |-> doctor, score |-> score]

\* n equal rows
Repeat(row, n) == [i \in 1..n |-> row]

\* user 1 has 5 behaviors and user 2 has 19
FewBehaviors ==
    Repeat(Behavior(1, "click_doctor", 1, 1), 5)
        \o Repeat(Behavior(2, "view_doctor_detail", 3, 1), 19)

\* user 1 has 20 behaviors with two doctors, user 2 has 25 with two doctors
\* and user 3 one
ManyBehaviors ==
    Repeat(Behavior(1, "click_doctor", 1, 1), 15)
        \o Repeat(Behavior(1, "rate_doctor", 2, 1), 5)
        \o Repeat(Behavior(2, "click_doctor", 1, 1), 10)
        \o Repeat(Behavior(2, "make_appointment", 3, 1), 5)
        \o Repeat(Behavior(2, "search", 0, 1), 10)
        \o <<Behavior(3, "rate_doctor", 4, 5)>>

\* user 1 has 20 behaviors without a doctor, user 2 has 19 behaviors
SearchBehaviors ==
    Repeat(Behavior(1, "search", 0, 1), 20)
        \o Repeat(Behavior(2, "click_doctor", 2, 1), 19)

BehaviorTables == {<<>>, FewBehaviors, ManyBehaviors, SearchBehaviors}

\* user 2 has a computed profile, users 1 and 3 have none
StoredProfiles ==
    [u \in {2} |-> [NewProfile EXCEPT !.specialty_preference = [s \in {TxtZhengji} |-> 8000]]]

RankUsers == {1, 2, 3}

\* intent, question and knowledge list of a ranking request
RankQueries ==
    {<<IntentBraces, QBraces, <<>>>>,
     <<DefaultIntent, QHello, <<ArtBoth>>>>}

\* user id, smart flag and fault of a ranking request: every fault for user
\* 1, and requests of user 2, without a user and with the flag off
RankCalls ==
    ({1} \X {TRUE} \X Faults)
        \cup {<<2, TRUE, "none">>, <<0, TRUE, "none">>, <<1, FALSE, "none">>}

InitRank ==
    /\ articles = <<>>
    /\ doctors = ChatDoctors
    /\ ChatEmpty
    /\ embedding_model = "None"
    /\ ThreadsIdle
    /\ NoRatings
    /\ out = NoCall
    /\ behaviors \in BehaviorTables
    /\ profiles = StoredProfiles
    /\ updated_at = [u \in DOMAIN StoredProfiles |-> 0]
    /\ appointments = <<>>
    /\ now = 0
    /\ recomputed_at = <<>>

\* retrieve_doctors_by_intent(intent, question, knowledge_list, limit,
\*                            user_id, use_smart_recommendation)
RankDoctors(intent, question, knowledge_list, limit, user_id, use_smart, fault) ==
    LET r == retrieve_doctors_by_intent(intent, question, knowledge_list, limit, user_id,
                                        use_smart, behaviors, doctors, profiles,
                                        RankUsers, fault)
    IN /\ out' = [op |-> "rank", intent |-> intent, question |-> question,
                  knowledge_list |-> knowledge_list, limit |-> limit,
                  user_id |-> user_id, use_smart |-> use_smart, fault |-> fault,
                  profiles |-> profiles, r |-> r]
       /\ profiles' = out'.r.profiles
       /\ updated_at' = auto_now(out'.r.profiles, updated_at, now)
       /\ UNCHANGED <<articles, doctors, chat_messages, rec_logs, embedding_model, pc, ret,
                      load_count, behaviors, appointments, now, recomputed_at,
                   records, local>>

\* content_based_recommend(user_id, limit); user 4 is not stored
ContentBased(user_id, limit) ==
    LET r == content_based_recommend(user_id, limit, behaviors, doctors, profiles,
                                     RankUsers)
    IN /\ out' = [op |-> "content", user_id |-> user_id, limit |-> limit,
                  profiles |-> profiles, r |-> r]
       /\ profiles' = out'.r.profiles
       /\ updated_at' = auto_now(out'.r.profiles, updated_at, now)
       /\ UNCHANGED <<articles, doctors, chat_messages, rec_logs, embedding_model, pc, ret,
                      load_count, behaviors, appointments, now, recomputed_at,
                   records, local>>

NextRank ==
    \/ \E query \in RankQueries, limit \in 0..MaxLimit, call \in RankCalls :
           RankDoctors(query[1], query[2], query[3], limit, call[1], call[2], call[3])
    \/ \E user_id \in RankUsers \cup {4}, limit \in 1..MaxLimit :
           ContentBased(user_id, limit)

SpecRank == InitRank /\ [][NextRank]_vars


(***************************************************************************)
(* Specification of get_embedding_model under concurrent request threads   *)
(***************************************************************************)
InitEmbed ==
    /\ articles = <<>>
    /\ doctors = <<>>
    /\ ChatEmpty
    /\ embedding_model = "None"
    /\ ThreadsIdle
    /\ NoRatings
    /\ out = NoCall
    /\ NoPersonalData

\* line 19: if _embedding_model is None
EmbedCheck(t) ==
    /\ pc[t] = "idle"
    /\ IF embedding_model = "None"
       THEN /\ pc' = [pc EXCEPT ![t] = "entered"]
            /\ ret' = [ret EXCEPT ![t] = "none"]
       ELSE /\ ret' = [ret EXCEPT ![t] = embedding_model]
            /\ UNCHANGED pc
    /\ UNCHANGED <<articles, doctors, chat_messages, rec_logs, embedding_model, load_count, out, behaviors, profiles,
                   updated_at, appointments, now, recomputed_at,
                   records, local>>

\* lines 21-38: the import; on ImportError the call returns None
EmbedImport(t, ok) ==
    /\ pc[t] = "entered"
    /\ IF ok
       THEN /\ load_count < MaxLoads
            /\ pc' = [pc EXCEPT ![t] = "loading"]
            /\ load_count' = load_count + 1
            /\ UNCHANGED ret
       ELSE /\ pc' = [pc EXCEPT ![t] = "idle"]
            /\ ret' = [ret EXCEPT ![t] = "None"]
            /\ UNCHANGED load_count
    /\ UNCHANGED <<articles, doctors, chat_messages, rec_logs, embedding_model, out, behaviors, profiles,
                   updated_at, appointments, now, recomputed_at,
                   records, local>>

\* lines 40-57: the load ends; on success the global is assigned
EmbedLoaded(t, ok) ==
    /\ pc[t] = "loading"
    /\ pc' = [pc EXCEPT ![t] = "idle"]
    /\ IF ok
       THEN /\ embedding_model' = "loaded"
            /\ ret' = [ret EXCEPT ![t] = "loaded"]
       ELSE /\ ret' = [ret EXCEPT ![t] = "None"]
            /\ UNCHANGED embedding_model
    /\ UNCHANGED <<articles, doctors, chat_messages, rec_logs, load_count, out, behaviors, profiles,
                   updated_at, appointments, now, recomputed_at,
                   records, local>>

NextEmbed ==
    \E t \in Threads :
        \/ EmbedCheck(t)
        \/ \E ok \in BOOLEAN : EmbedImport(t, ok)
        \/ \E ok \in BOOLEAN : EmbedLoaded(t, ok)

SpecEmbed == InitEmbed /\ [][NextEmbed]_vars

(***************************************************************************)
(* User profile recomputation (services/user_profile.py)                   *)
(***************************************************************************)
Appointment(user, doctor, hospital, appointment_time, status) ==
    [user |-> user, doctor |-> doctor, hospital |-> hospital,
     appointment_time |-> appointment_time, status |-> status]

\* Appointment.objects.filter(user=user, status__in=['completed', 'upcoming'])
UserAppointments(user, apts) ==
    LET Mine(a) == a.user = user /\ a.status \in {"completed", "upcoming"}
    IN SelectSeq(apts, Mine)

\* apt.doctor
DoctorOf(id, docs) == docs[CHOOSE i \in 1..Len(docs) : docs[i].id = id]

\* counts of the truthy keys of a list, each divided by the total; a
\* preference is kept in units of 1/10000
Normalized(keys) ==
    LET named == {i \in 1..Len(keys) : Truthy(keys[i])}
        total == Cardinality(named)
    IN [k \in {keys[i] : i \in named} |->
           (Cardinality({i \in named : keys[i] = k}) * 10000) \div total]

\* lines 15-47
calculate_specialty_preference(user, apts, docs) ==
    LET mine == UserAppointments(user, apts)
    IN Normalized([i \in 1..Len(mine) |-> DoctorOf(mine[i].doctor, docs).specialty])

\* lines 50-79
calculate_hospital_preference(user, apts) ==
    LET mine == UserAppointments(user, apts)
    IN Normalized([i \in 1..Len(mine) |-> mine[i].hospital])

\* str.split(':')[0]
BeforeColon(t) ==
    LET colons == {i \in 1..Len(t) : t[i] = ":"}
    IN IF colons = {} THEN t
       ELSE SubSeq(t, 1, (CHOOSE i \in colons : \A j \in colons : i <= j) - 1)

DigitValue(c) == IF c = "1" THEN 1 ELSE 2

RECURSIVE IntFrom(_, _, _)
IntFrom(t, i, acc) ==
    IF i > Len(t) THEN acc ELSE IntFrom(t, i + 1, acc * 10 + DigitValue(t[i]))

\* int(s) of a string of digits; -1 stands for ValueError
IntOf(t) ==
    LET s == Strip(t)
    IN IF Len(s) = 0 \/ \E i \in 1..Len(s) : s[i] \notin Digits THEN 0 - 1
       ELSE IntFrom(s, 1, 0)

\* lines 102-113: the period an appointment counts for, "" when it counts
\* for none
PeriodOf(appointment_time) ==
    LET hour == IF Truthy(appointment_time) THEN IntOf(BeforeColon(appointment_time))
                ELSE 0 - 1
    IN IF 6 <= hour /\ hour < 12 THEN "morning"
       ELSE IF 12 <= hour /\ hour < 18 THEN "afternoon"
       ELSE IF 18 <= hour /\ hour < 24 THEN "evening"
       ELSE ""

\* lines 82-119; max() returns the first of the largest counts, in the order
\* morning, afternoon, evening
calculate_time_preference(user, apts) ==
    LET mine == UserAppointments(user, apts)
        Count(p) == Cardinality({i \in 1..Len(mine) : PeriodOf(mine[i].appointment_time) = p})
        m == Count("morning")
        a == Count("afternoon")
        e == Count("evening")
    IN IF m + a + e = 0 THEN NullText
       ELSE IF m >= a /\ m >= e THEN "morning"
       ELSE IF a >= e THEN "afternoon"
       ELSE "evening"

\* Doctor.objects.filter(id__in=doctor_ids)
AppointmentDoctors(user, apts, docs) ==
    LET mine == UserAppointments(user, apts)
        Booked(d) == \E i \in 1..Len(mine) : mine[i].doctor = d.id
    IN SelectSeq(docs, Booked)

\* lines 122-165, with avg_score / 5 = 20 * sum / (1000 * n) for scores
\* stored times ten
calculate_doctor_feature_preference(user, apts, docs) ==
    LET ds == AppointmentDoctors(user, apts, docs)
        n == Len(ds)
        score20 == 20 * Sum([i \in 1..n |-> ds[i].score])
        reviews == Min(Sum([i \in 1..n |-> ds[i].reviews]), 1000 * n)
        score_weight == IF score20 + reviews = 0 THEN 5000
                        ELSE (score20 * 10000) \div (score20 + reviews)
    IN IF n = 0 THEN [score_weight |-> 5000, reviews_weight |-> 5000]
       ELSE [score_weight |-> score_weight, reviews_weight |-> 10000 - score_weight]

\* lines 168-200
calculate_price_sensitivity(user, apts, docs) ==
    LET ds == AppointmentDoctors(user, apts, docs)
        n == Len(ds)
        sensitivity == 10000 - (Sum([i \in 1..n |-> ds[i].score]) * 10000) \div (50 * n)
    IN IF Len(UserAppointments(user, apts)) = 0 THEN 5000
       ELSE IF sensitivity < 0 THEN 0
       ELSE Min(10000, sensitivity)

\* lines 219-231: the preference fields computed from the appointments
Recomputed(user, apts, docs) ==
    [specialty_preference |-> calculate_specialty_preference(user, apts, docs),
     hospital_preference |-> calculate_hospital_preference(user, apts),
     time_preference |-> calculate_time_preference(user, apts),
     doctor_feature_preference |-> calculate_doctor_feature_preference(user, apts, docs),
     price_sensitivity |-> calculate_price_sensitivity(user, apts, docs)]

\* timedelta(hours=1), in minutes
OneHour == 60

\* lines 214-217: the early return
RecentlyUpdated(force_update, created, since) ==
    ~force_update /\ ~created /\ since < OneHour

\* lines 203-234.  profs and stamps are the profile table and its updated_at
\* column, t is timezone.now().  Result: both after the call, whether the
\* call returned early, and whether it created the row.
update_user_profile(user, force_update, profs, stamps, apts, docs, t) ==
    LET created == user \notin DOMAIN profs
        got == get_user_profile(user, profs)
        got_at == auto_now(got, stamps, t)
        skipped == RecentlyUpdated(force_update, created, t - got_at[user])
    IN IF skipped
       THEN [profiles |-> got, updated_at |-> got_at, skipped |-> TRUE, created |-> created]
       ELSE [profiles |-> [got EXCEPT ![user] = Recomputed(user, apts, docs)],
             updated_at |-> [got_at EXCEPT ![user] = t],
             skipped |-> FALSE, created |-> created]

(***************************************************************************)
(* Specification of the profile table under get_user_profile,              *)
(* update_user_profile, new appointments and the passing of time           *)
(***************************************************************************)
MaxClock == 120
MaxAppointments == 2
ClockStep == 30

TimeMorning == <<"1", "1", ":", "1", "2">>
TimeEvening == <<"2", "1", ":", "1", "2">>

\* the appointments that can be made: user 2 never books
Bookings ==
    {Appointment(1, 1, Clinic, TimeMorning, "upcoming"),
     Appointment(1, 3, Clinic, TimeEvening, "completed"),
     Appointment(1, 4, Clinic, <<>>, "cancelled")}

InitProfile ==
    /\ articles = <<>>
    /\ doctors = ChatDoctors
    /\ ChatEmpty
    /\ embedding_model = "None"
    /\ ThreadsIdle
    /\ NoRatings
    /\ out = NoCall
    /\ NoPersonalData

\* time passes
Tick ==
    /\ now + ClockStep <= MaxClock
    /\ now' = now + ClockStep
    /\ UNCHANGED <<articles, doctors, chat_messages, rec_logs, embedding_model, pc, ret,
                   load_count, out, behaviors, profiles, updated_at, appointments,
                   recomputed_at,
                   records, local>>

\* the user books an appointment (appointments/views.py)
Book(apt) ==
    /\ Len(appointments) < MaxAppointments
    /\ appointments' = Append(appointments, apt)
    /\ UNCHANGED <<articles, doctors, chat_messages, rec_logs, embedding_model, pc, ret,
                   load_count, out, behaviors, profiles, updated_at, now, recomputed_at,
                   records, local>>

\* get_user_profile(user), as content_based_recommend calls it
GetUserProfile(user) ==
    /\ profiles' = get_user_profile(user, profiles)
    /\ updated_at' = auto_now(profiles', updated_at, now)
    /\ out' = [op |-> "get", user |-> user, created |-> user \notin DOMAIN profiles]
    /\ UNCHANGED <<articles, doctors, chat_messages, rec_logs, embedding_model, pc, ret,
                   load_count, behaviors, appointments, now, recomputed_at,
                   records, local>>

\* update_user_profile(user, force_update), as the management command
\* update_user_profiles calls it
UpdateUserProfile(user, force_update) ==
    LET r == update_user_profile(user, force_update, profiles, updated_at,
                                 appointments, doctors, now)
    IN /\ out' = [op |-> "update", user |-> user, force_update |-> force_update,
                  now |-> now, profiles |-> profiles, recomputed_at |-> recomputed_at,
                  r |-> r]
       /\ profiles' = out'.r.profiles
       /\ updated_at' = out'.r.updated_at
       /\ recomputed_at' = IF out'.r.skipped THEN recomputed_at
                           ELSE [u \in DOMAIN recomputed_at \cup {user} |->
                                    IF u = user THEN now ELSE recomputed_at[u]]
       /\ UNCHANGED <<articles, doctors, chat_messages, rec_logs, embedding_model, pc, ret,
                      load_count, behaviors, appointments, now,
                   records, local>>

NextProfile ==
    \/ Tick
    \/ \E apt \in Bookings : Book(apt)
    \/ \E user \in Users : GetUserProfile(user)
    \/ \E user \in Users, force_update \in BOOLEAN : UpdateUserProfile(user, force_update)

SpecProfile == InitProfile /\ [][NextProfile]_vars

(***************************************************************************)
(* Specification of the rule-based ranker over a table whose rows the      *)
(* database scans in any order                                             *)
(***************************************************************************)
MaxRankLimit == 3

NameSun == <<"sun", "qi">>
TxtYazhou == <<"ya", "zhou">>

\* specialty equal to the department, and equal to the disease category,
\* with the same is_online, score and reviews
DocExactDept == Doctor(1, NameZhang, <<"yi1", "shi1">>, TxtZhengji \o <<"ke">>,
                       <<>>, <<>>, TRUE, 45, 10, Clinic)
DocExactDisease == Doctor(2, NameLi, <<"yi1", "shi1">>, TxtZhengji,
                          <<>>, <<>>, TRUE, 45, 10, Clinic)
\* specialty containing the disease category
DocContains == Doctor(3, NameWang, <<"yi1", "shi1">>, <<"kou", "qiang">> \o TxtZhengji,
                      <<>>, <<>>, TRUE, 50, 30, Clinic)
\* introduction containing the department
DocIntroduction == Doctor(4, NameZhao, <<"yi1", "shi1">>, TxtYazhou,
                          <<"shan", "chang">> \o TxtZhengji \o <<"ke">>, <<>>,
                          TRUE, 50, 40, NullText)
\* experience containing the disease category only
DocExperience == Doctor(5, NameSun, <<"zhu3", "ren4">>, TxtYazhou,
                        <<>>, TxtZhengji \o <<"zhi4", "liao">>, FALSE, 50, 50, Clinic)

TierDoctors == <<DocExactDept, DocExactDisease, DocContains, DocIntroduction, DocExperience>>

\* one doctor of another specialty and one orthodontist
ScenarioDoctors == <<DocWang, DocLi>>

\* a doctor whose name is written in Latin letters
NameAb == <<"a", "b">>
DocAb == Doctor(6, NameAb, <<"yi1", "shi1">>, TxtYazhou, <<>>, <<>>, TRUE, 40, 5, Clinic)
LatinDoctors == <<DocWang, DocAb>>

RuleDoctorTables == {TierDoctors, ChatDoctors, ScenarioDoctors, LatinDoctors}

IntentWhitening ==
    [kind |-> "dict", disease_category |-> JStr(<<"mei", "bai">>),
     recommended_department |-> JNull, priority_level |-> JStr(<<"info">>)]

\* an article whose tags are generic department names only
ArtGeneric == Article(9, TxtXiya, NullText, TxtXiya,
                      <<"kou", "qiang", "wai", "ke">> \o <<",", " ">> \o TxtZhengji \o <<"ke">>,
                      TRUE, <<1, 0>>, TRUE, 9)

\* a question that names a doctor and a specialty term
QZhaoBraces == NameZhao \o <<" ">> \o TxtJiaozheng
\* a question that names a doctor only
QZhao == <<"zhao3">> \o NameZhao \o <<"yi1", "sheng">>

\* a question with a Latin keyword of two letters, a keyword of two
\* digits and a keyword of five characters
QAb == <<"A", "b", " ", "1", "2", " ">> \o NameZhang \o NameWang \o <<"ya">>

\* intent, question and knowledge list of a request
RuleQueries ==
    {<<IntentBraces, QBraces, <<>>>>,
     <<IntentBraces, QZhaoBraces, <<>>>>,
     <<IntentWhitening, QBraces, <<>>>>,
     <<IntentWhitening, QZhaoBraces, <<>>>>,
     <<DefaultIntent, <<>>, <<>>>>,
     <<DefaultIntent, QBraces, <<>>>>,
     <<DefaultIntent, QBraces, <<ArtGeneric>>>>,
     <<DefaultIntent, QBraces, <<ArtBoth>>>>,
     <<DefaultIntent, QZhaoBraces, <<>>>>,
     <<DefaultIntent, QZhaoBraces, <<ArtGeneric, ArtScaling>>>>,
     <<DefaultIntent, QZhao, <<>>>>,
     <<DefaultIntent, QHello, <<ArtGeneric>>>>,
     <<DefaultIntent, QAb, <<>>>>}

\* the orders in which a query without a total ORDER BY may return the rows
ScanOrders(rows) ==
    {[i \in 1..Len(rows) |-> rows[p[i]]] : p \in Permutations(1..Len(rows))}

InitRule ==
    /\ articles = <<>>
    /\ doctors \in RuleDoctorTables
    /\ ChatEmpty
    /\ embedding_model = "None"
    /\ ThreadsIdle
    /\ NoRatings
    /\ out = NoCall
    /\ NoPersonalData

\* retrieve_doctors_by_intent(intent, question, knowledge_list, limit)
\* without a user: lines 202-540, the rows scanned in the order scan.  The
\* call writes nothing, so a later call starts from the state of the first:
\* a behaviour holds one call.
RuleRank(intent, question, knowledge_list, limit, scan) ==
    /\ out = NoCall
    /\ out' = [op |-> "rule", intent |-> intent, question |-> question,
               knowledge_list |-> knowledge_list, limit |-> limit, scan |-> scan,
               r |-> rule_based_rank(intent, question, knowledge_list, limit, scan)]
    /\ UNCHANGED <<articles, doctors, chat_messages, rec_logs, embedding_model, pc, ret,
                   load_count, behaviors, profiles, updated_at, appointments, now,
                   recomputed_at,
                   records, local>>

NextRule ==
    \E query \in RuleQueries, limit \in 0..MaxRankLimit, scan \in ScanOrders(doctors) :
        RuleRank(query[1], query[2], query[3], limit, scan)

SpecRule == InitRule /\ [][NextRule]_vars

(***************************************************************************)
(* Specification of the knowledge retriever over a table whose rows the    *)
(* database scans in any order                                             *)
(***************************************************************************)
\* two articles with the same similarity to QBraces; articles that contain
\* the keyword of QScaling, with and without a usable embedding
ScanArticleTables ==
    {<<ArtBraces, ArtScaling, ArtBoth, ArtTie>>,
     <<ArtScaling, ArtRetired, ArtEmptyVec, ArtShortVec>>}

\* the question TxtXiya is encoded away from every stored embedding
ScanQuestions == {QBraces, QScaling, TxtXiya}

\* the provider loads and encodes, fails to load, or raises on encode
ScanEmbeddingOutcomes(question) ==
    {e \in EmbeddingOutcomes(question) :
        <<e.load, e.encode>> \in {<<"load_ok", "ok">>, <<"load_fail", "ok">>,
                                  <<"load_ok", "raise">>}}

InitScan ==
    /\ articles \in ScanArticleTables
    /\ doctors = <<>>
    /\ ChatEmpty
    /\ embedding_model = "None"
    /\ ThreadsIdle
    /\ NoRatings
    /\ out = NoCall
    /\ NoPersonalData

\* retrieve_knowledge_snippets(question, limit, use_vector), its queries
\* returning the rows in the order scan; the first call of the process
RetrieveScanned(question, limit, use_vector, emb, scan) ==
    /\ out = NoCall
    /\ out' = [op |-> "scan", question |-> question, limit |-> limit,
               use_vector |-> use_vector, emb |-> emb, scan |-> scan,
               r |-> retrieve_knowledge_snippets(question, limit, use_vector, scan,
                                                 embedding_model, emb)]
    /\ embedding_model' = out'.r.global
    /\ UNCHANGED <<articles, doctors, chat_messages, rec_logs, pc, ret, load_count,
                   behaviors, profiles, updated_at, appointments, now, recomputed_at,
                   records, local>>

NextScan ==
    \E question \in ScanQuestions, limit \in 0..MaxLimit, use_vector \in BOOLEAN :
        \E emb \in ScanEmbeddingOutcomes(question), scan \in ScanOrders(articles) :
            RetrieveScanned(question, limit, use_vector, emb, scan)

SpecScan == InitScan /\ [][NextScan]_vars

(***************************************************************************)
(* Specification of calculate_user_similarity over a growing behavior      *)
(* table                                                                   *)
(***************************************************************************)
MaxBehaviors == 3

\* the rows that can be stored: UserBehavior.score is a FloatField without
\* validators, UserBehavior.doctor is nullable
BehaviorRows ==
    {Behavior(u, "click_doctor", d, x) : u \in Users, d \in {1, 2}, x \in {0, 1}}
        \cup {Behavior(u, "view_doctor_detail", d, 0 - 1) : u \in Users, d \in {1, 2}}
        \cup {Behavior(1, "search", 0, 1)}

InitSimilarity ==
    /\ articles = <<>>
    /\ doctors = ChatDoctors
    /\ ChatEmpty
    /\ embedding_model = "None"
    /\ ThreadsIdle
    /\ NoRatings
    /\ out = NoCall
    /\ NoPersonalData

\* a behavior row is stored; rows are stored before the similarity is asked
Record(row) ==
    /\ out = NoCall
    /\ Len(behaviors) < MaxBehaviors
    /\ behaviors' = Append(behaviors, row)
    /\ UNCHANGED <<articles, doctors, chat_messages, rec_logs, embedding_model, pc, ret,
                   load_count, out, profiles, updated_at, appointments, now, recomputed_at,
                   records, local>>

\* calculate_user_similarity(user1_id, user2_id)
Similarity(user1_id, user2_id) ==
    /\ out = NoCall
    /\ out' = [op |-> "similarity", user1_id |-> user1_id, user2_id |-> user2_id,
               r |-> calculate_user_similarity(user1_id, user2_id, behaviors)]
    /\ UNCHANGED <<articles, doctors, chat_messages, rec_logs, embedding_model, pc, ret,
                   load_count, behaviors, profiles, updated_at, appointments, now,
                   recomputed_at,
                   records, local>>

NextSimilarity ==
    \/ \E row \in BehaviorRows : Record(row)
    \/ \E user1_id, user2_id \in Users : Similarity(user1_id, user2_id)

SpecSimilarity == InitSimilarity /\ [][NextSimilarity]_vars

(***************************************************************************)
(* Specification of chat turns over a doctor table with two doctors of     *)
(* the same name (Doctor.name is not unique, doctors/models.py:12)         *)
(***************************************************************************)
MaxNamesakeTurns == 2

DocZhangTwo == Doctor(5, NameZhang, <<"yi1", "shi1">>, TxtZhengji, <<>>, <<>>,
                      TRUE, 46, 8, Clinic)

NamesakeDoctors == <<DocZhang, DocLi, DocWang, DocZhangTwo>>

NamesakeCalls ==
    {NotJson, Json(IntentBraces)}
        \X {Text(<<>>), Text(AnsZhang), Text(AnsLiWang), Text(AnsAdvice), Text(AnsZhao)}

InitNamesakes ==
    /\ articles = ChatArticles
    /\ doctors = NamesakeDoctors
    /\ ChatEmpty
    /\ embedding_model = "None"
    /\ ThreadsIdle
    /\ NoRatings
    /\ out = NoCall
    /\ NoPersonalData

NextNamesakes ==
    /\ TurnsMade < MaxNamesakeTurns
    /\ \E user \in Users, message \in ChatQuestions, calls \in NamesakeCalls :
           ChatTurn(user, message, calls[1], ChatEmbeddingOutcome(message), calls[2])

SpecNamesakes == InitNamesakes /\ [][NextNamesakes]_vars

(***************************************************************************)
(* Specification of chat turns of users who have a long recommendation     *)
(* log: the histories are what twenty or twenty-one earlier turns left     *)
(***************************************************************************)
MaxDedupLogs == 22

\* the AIRecommendationLog row of a turn (views.py:230-236)
LogEntry(user, intent, recommended) ==
    [user |-> user, structured_intent |-> intent, recommended_doctors |-> recommended]

\* turns of user 1 with the intent IntentBraces in which the answer named nobody
QuietTurns(n) == [i \in 1..n |-> LogEntry(1, IntentBraces, <<>>)]

\* a doctor recorded 21 turns ago, a doctor recorded 20 turns ago, and
\* doctors recorded by the other user and under another intent
DedupHistories ==
    { <<LogEntry(1, IntentBraces, <<Summary(DocZhang, TRUE)>>)>> \o QuietTurns(20),
      <<LogEntry(1, IntentBraces, <<Summary(DocZhang, TRUE)>>)>> \o QuietTurns(19),
      <<LogEntry(2, IntentBraces, <<Summary(DocLi, TRUE)>>),
        LogEntry(1, DefaultIntent, <<Summary(DocWang, FALSE)>>)>> \o QuietTurns(18) }

\* the two AIChatMessage rows of each turn of a history (views.py:64-69, 223-227)
MessagesOf(logs) ==
    [i \in 1..(2 * Len(logs)) |->
        [user |-> logs[(i + 1) \div 2].user,
         role |-> IF i % 2 = 1 THEN "user" ELSE "assistant"]]

InitDedup ==
    /\ articles = ChatArticles
    /\ doctors = ChatDoctors
    /\ rec_logs \in DedupHistories
    /\ chat_messages = MessagesOf(rec_logs)
    /\ embedding_model = "None"
    /\ ThreadsIdle
    /\ NoRatings
    /\ out = NoCall
    /\ NoPersonalData

NextDedup ==
    /\ Len(rec_logs) < MaxDedupLogs
    /\ \E user \in Users, intent_call \in FollowUpIntentCalls,
          answer_call \in FollowUpAnswerCalls :
           ChatTurn(user, QHello, intent_call, ChatEmbeddingOutcome(QHello), answer_call)

SpecDedup == InitDedup /\ [][NextDedup]_vars

(***************************************************************************)
(* Specification of hybrid_recommend called directly                       *)
(***************************************************************************)
\* hybrid_recommend(user_id, intent, question, limit), none of its three
\* recommenders raising
HybridRecommend(user_id, intent, question, limit) ==
    LET h == hybrid_recommend(user_id, intent, question, limit, behaviors, doctors,
                              profiles, RankUsers, "none")
    IN /\ out' = [op |-> "hybrid", user_id |-> user_id, intent |-> intent,
                  question |-> question, limit |-> limit, profiles |-> profiles, r |-> h]
       /\ profiles' = out'.r.profiles
       /\ updated_at' = auto_now(out'.r.profiles, updated_at, now)
       /\ UNCHANGED <<articles, doctors, chat_messages, rec_logs, embedding_model, pc, ret,
                      load_count, behaviors, appointments, now, recomputed_at,
                   records, local>>

NextHybrid ==
    \E user_id \in RankUsers, query \in RankQueries, limit \in 0..MaxLimit :
        HybridRecommend(user_id, query[1], query[2], limit)

SpecHybrid == InitRank /\ [][NextHybrid]_vars

(***************************************************************************)
(* Specification of concurrent rating requests: RecordViewSet.rating       *)
(* (records/views.py:209-249).  The handler runs outside a transaction     *)
(* (no ATOMIC_REQUESTS, no transaction.atomic, no select_for_update), so   *)
(* each of its queries is a step of its own.                               *)
(***************************************************************************)
\* a row of table record (records/models.py:11-27); saves is history: how
\* many requests have stored a rating in the row
VisitRecord(id, user, doctor) ==
    [id |-> id, user |-> user, doctor |-> doctor, rated |-> FALSE, rating |-> 0, saves |-> 0]

\* two visits of user 1 to doctor 1
VisitRecords == <<VisitRecord(1, 1, 1), VisitRecord(2, 1, 1)>>

\* the ratings sent: 0 is rejected by IntegerField(min_value=1, max_value=5)
Ratings == {0, 1, 5}

\* a / b rounded to the nearest integer, halves to the even one: round(x, 1)
\* on scores kept times ten
RoundDiv(a, b) ==
    IF 2 * (a % b) > b THEN (a \div b) + 1
    ELSE IF 2 * (a % b) < b THEN a \div b
    ELSE IF (a \div b) % 2 = 0 THEN a \div b
    ELSE (a \div b) + 1

\* the row with the given id
RowOf(table, id) == CHOOSE i \in 1..Len(table) : table[i].id = id

InitRating ==
    /\ articles = <<>>
    /\ doctors = <<DocZhang>>
    /\ ChatEmpty
    /\ embedding_model = "None"
    /\ pc = [t \in Threads |-> "idle"]
    /\ ret = [t \in Threads |-> "none"]
    /\ load_count = 0
    /\ out = NoCall
    /\ NoPersonalData
    /\ records = VisitRecords
    /\ local = [t \in Threads |-> "none"]

\* lines 212-231: get_object, the permission check, the rated check and the
\* serializer, all on the instance just read
RatingRead(t, pk, user, rating) ==
    /\ pc[t] = "idle"
    /\ IF records[RowOf(records, pk)].user # user
       THEN /\ ret' = [ret EXCEPT ![t] = "403"]
            /\ pc' = [pc EXCEPT ![t] = "done"]
            /\ UNCHANGED local
       ELSE IF records[RowOf(records, pk)].rated \/ rating \notin 1..5
       THEN /\ ret' = [ret EXCEPT ![t] = "400"]
            /\ pc' = [pc EXCEPT ![t] = "done"]
            /\ UNCHANGED local
       ELSE /\ local' = [local EXCEPT ![t] = [record |-> records[RowOf(records, pk)],
                                              rating |-> rating, doctor |-> "none"]]
            /\ pc' = [pc EXCEPT ![t] = "validated"]
            /\ UNCHANGED ret
    /\ UNCHANGED <<articles, doctors, chat_messages, rec_logs, embedding_model, load_count,
                   out, behaviors, profiles, updated_at, appointments, now, recomputed_at,
                   records>>

\* lines 233-237: record.save() writes the fields of the instance
RatingSaveRecord(t) ==
    /\ pc[t] = "validated"
    /\ records' = [records EXCEPT ![RowOf(records, local[t].record.id)] =
                      [local[t].record EXCEPT
                          !.rating = local[t].rating, !.rated = TRUE,
                          !.saves = records[RowOf(records, local[t].record.id)].saves + 1]]
    /\ pc' = [pc EXCEPT ![t] = "record_saved"]
    /\ UNCHANGED <<articles, doctors, chat_messages, rec_logs, embedding_model, ret,
                   load_count, out, behaviors, profiles, updated_at, appointments, now,
                   recomputed_at, local>>

\* line 240: doctor = record.doctor fetches the doctor row
RatingReadDoctor(t) ==
    /\ pc[t] = "record_saved"
    /\ local' = [local EXCEPT ![t].doctor = doctors[RowOf(doctors, local[t].record.doctor)]]
    /\ pc' = [pc EXCEPT ![t] = "doctor_read"]
    /\ UNCHANGED <<articles, doctors, chat_messages, rec_logs, embedding_model, ret,
                   load_count, out, behaviors, profiles, updated_at, appointments, now,
                   recomputed_at, records>>

\* lines 241-247: the new average and count, computed from the instance, are
\* saved; the request succeeds
RatingSaveDoctor(t) ==
    /\ pc[t] = "doctor_read"
    /\ doctors' = [doctors EXCEPT ![RowOf(doctors, local[t].doctor.id)] =
                      [local[t].doctor EXCEPT
                          !.score = RoundDiv(local[t].doctor.score * local[t].doctor.reviews
                                                 + local[t].rating * 10,
                                             local[t].doctor.reviews + 1),
                          !.reviews = local[t].doctor.reviews + 1]]
    /\ ret' = [ret EXCEPT ![t] = "200"]
    /\ pc' = [pc EXCEPT ![t] = "done"]
    /\ UNCHANGED <<articles, chat_messages, rec_logs, embedding_model, load_count, out,
                   behaviors, profiles, updated_at, appointments, now, recomputed_at,
                   records, local>>

NextRating ==
    \E t \in Threads :
        \/ \E pk \in {1, 2}, user \in Users, rating \in Ratings : RatingRead(t, pk, user, rating)
        \/ RatingSaveRecord(t)
        \/ RatingReadDoctor(t)
        \/ RatingSaveDoctor(t)

SpecRating == InitRating /\ [][NextRating]_vars

(***************************************************************************)
(* Specification of follow-up turns over a doctor table in which more      *)
(* doctors match the intent than the ranker returns (limit * 2 = 6)        *)
(***************************************************************************)
MaxCrowdTurns == 3

NameQian == <<"qian", "ba">>
NameZhou == <<"zhou", "jiu">>

DocSunCrowd == Doctor(5, NameSun, <<"yi1", "shi1">>, TxtZhengji, <<>>, <<>>, TRUE, 44, 6, Clinic)
DocQianCrowd == Doctor(6, NameQian, <<"yi1", "shi1">>, TxtZhengji, <<>>, <<>>, TRUE, 43, 4, Clinic)
DocZhouCrowd == Doctor(7, NameZhou, <<"yi1", "shi1">>, TxtZhengji, <<>>, <<>>, FALSE, 30, 2, Clinic)
DocWangCrowd == Doctor(3, NameWang, <<"yi1", "shi1">>, TxtZhengji, <<>>, <<>>, TRUE, 40, 5, Clinic)
DocZhaoCrowd == Doctor(4, NameZhao, <<"yi1", "shi1">>, TxtZhengji, <<>>, <<>>, TRUE, 40, 3, Clinic)

\* seven orthodontists
CrowdDoctors ==
    <<DocZhang, DocLi, DocWangCrowd, DocZhaoCrowd, DocSunCrowd, DocQianCrowd, DocZhouCrowd>>

AnsFirstThree == NameZhang \o <<",">> \o NameWang \o <<",">> \o NameZhao
AnsNextThree == NameSun \o <<",">> \o NameQian \o <<",">> \o NameLi
AnsSeventh == <<"tui", "jian">> \o NameZhou

CrowdAnswerCalls == {Text(AnsFirstThree), Text(AnsNextThree), Text(AnsSeventh), Text(AnsAdvice)}

InitCrowd ==
    /\ articles = ChatArticles
    /\ doctors = CrowdDoctors
    /\ ChatEmpty
    /\ embedding_model = "None"
    /\ ThreadsIdle
    /\ NoRatings
    /\ out = NoCall
    /\ NoPersonalData

NextCrowd ==
    /\ TurnsMade < MaxCrowdTurns
    /\ \E user \in Users, answer_call \in CrowdAnswerCalls :
           ChatTurn(user, QHello, Json(IntentBraces), ChatEmbeddingOutcome(QHello), answer_call)

SpecCrowd == InitCrowd /\ [][NextCrowd]_vars

(***************************************************************************)
(* Specification of chat turns of users with stored behaviors and          *)
(* profiles                                                                *)
(***************************************************************************)
MaxPersonalTurns == 2

\* no profile stored, or the profile of user 2
PersonalProfiles == {<<>>, StoredProfiles}

PersonalCalls ==
    {NotJson, Json(IntentBraces)} \X {Text(AnsZhang), Text(AnsLiWang), Text(AnsAdvice)}

InitPersonal ==
    /\ articles = ChatArticles
    /\ doctors = ChatDoctors
    /\ ChatEmpty
    /\ embedding_model = "None"
    /\ ThreadsIdle
    /\ NoRatings
    /\ out = NoCall
    /\ behaviors \in BehaviorTables
    /\ profiles \in PersonalProfiles
    /\ updated_at = [u \in DOMAIN profiles |-> 0]
    /\ appointments = <<>>
    /\ now = 0
    /\ recomputed_at = <<>>

NextPersonal ==
    /\ TurnsMade < MaxPersonalTurns
    /\ \E user \in Users, message \in ChatQuestions, calls \in PersonalCalls :
           ChatTurn(user, message, calls[1], ChatEmbeddingOutcome(message), calls[2])

SpecPersonal == InitPersonal /\ [][NextPersonal]_vars

(***************************************************************************)
(* Specification of the appointment requests: appointments/views.py,       *)
(* AppointmentViewSet.update, cancel, checkin and complete.  Each request  *)
(* runs in a request thread; a handler is the sequence of its database     *)
(* queries, and the queries of two requests may interleave (no handler     *)
(* opens a transaction or locks the row).  A date is a day number and a    *)
(* time the minute of the day.                                             *)
(***************************************************************************)
AppointmentThreads == {1, 2}

Statuses == {"upcoming", "checked-in", "completed", "cancelled"}

\* a row of table appointment (appointments/models.py:10-37); the hospital
\* is the joined row, with or without coordinates
Booking(id, user, doctor, located, date, time, status) ==
    [id |-> id, user |-> user, doctor |-> doctor, hospital |-> [located |-> located],
     appointment_date |-> date, appointment_time |-> time, status |-> status,
     checkin_time |-> 0]

\* who sends a request: two patients and the doctor of the appointments
Patient(id) == [role |-> "user", id |-> id, doctor_profile |-> 0]
DoctorUser(id, doctor) == [role |-> "doctor", id |-> id, doctor_profile |-> doctor]
Requesters == {Patient(1), Patient(2), DoctorUser(3, 1)}

\* the slots a reschedule asks for: the slot booked, a free slot an hour
\* earlier, and the slot of the second appointment
Slots == {<<1, 600>>, <<1, 540>>, <<2, 600>>}

\* the instants at which the requests are made: ten minutes before the slot
\* booked and ten minutes into it, both after the window of the earlier slot
Instants == {2030, 2050}

\* where the patient says to be: the serializer rejects it, within 500 m of
\* the hospital, farther away
Positions == {"invalid", "near", "far"}

\* lines 46-66: get_queryset shows a patient the own appointments and a
\* doctor the appointments with the doctor
Visible(a, who) ==
    IF who.role = "user" THEN a.user = who.id ELSE a.doctor = who.doctor_profile

\* datetime.combine(appointment_date, appointment_time), in minutes
AppointmentInstant(a) == a.appointment_date * 1440 + a.appointment_time

\* one appointment of patient 1 with doctor 1 in any status, and a second,
\* upcoming one with the same doctor at a hospital without coordinates
InitAppointment ==
    /\ articles = <<>>
    /\ doctors = <<DocZhang>>
    /\ ChatEmpty
    /\ embedding_model = "None"
    /\ ThreadsIdle
    /\ NoRatings
    /\ out = NoCall
    /\ behaviors = <<>>
    /\ profiles = <<>>
    /\ updated_at = <<>>
    /\ recomputed_at = <<>>
    /\ now \in Instants
    /\ \E status \in Statuses :
           appointments = <<Booking(1, 1, 1, TRUE, 1, 600, status),
                            Booking(2, 1, 1, FALSE, 2, 600, "upcoming")>>

\* the response of the request of thread t: the status code, with the
\* status the request saw; the thread is free again
Respond(t, op, pk, seen, code) ==
    /\ out' = [op |-> "appointment", request |-> op, pk |-> pk, seen |-> seen,
               code |-> code]
    /\ pc' = [pc EXCEPT ![t] = "idle"]
    /\ local' = [local EXCEPT ![t] = "none"]

\* the request of thread t goes on holding the instance it read
Hold(t, op, pk, seen, instance, next) ==
    /\ pc' = [pc EXCEPT ![t] = next]
    /\ local' = [local EXCEPT ![t] = [op |-> op, pk |-> pk, seen |-> seen,
                                      appointment |-> instance]]
    /\ UNCHANGED out

\* lines 157-168: get_object, the status check and the comparison of the
\* slot asked for with the slot booked
UpdateRead(t, pk, who, slot) ==
    LET a == appointments[RowOf(appointments, pk)]
    IN /\ pc[t] = "idle"
       /\ IF ~Visible(a, who) THEN Respond(t, "update", pk, "hidden", "404")
          ELSE IF a.status \in {"cancelled", "completed"}
          THEN Respond(t, "update", pk, a.status, "400")
          ELSE IF slot = <<a.appointment_date, a.appointment_time>>
          THEN Respond(t, "update", pk, a.status, "200")
          ELSE Hold(t, "update", pk, a.status,
                    [a EXCEPT !.appointment_date = slot[1], !.appointment_time = slot[2]],
                    "update_read")
       /\ UNCHANGED <<articles, doctors, chat_messages, rec_logs, embedding_model, ret,
                      load_count, behaviors, profiles, updated_at, appointments, now,
                      recomputed_at, records>>

\* lines 171-177: the conflict query
UpdateConflict(t) ==
    LET mine == local[t].appointment
    IN /\ pc[t] = "update_read"
       /\ IF \E i \in 1..Len(appointments) :
                 /\ appointments[i].id # mine.id
                 /\ appointments[i].doctor = mine.doctor
                 /\ appointments[i].appointment_date = mine.appointment_date
                 /\ appointments[i].appointment_time = mine.appointment_time
          THEN Respond(t, "update", mine.id, local[t].seen, "409")
          ELSE /\ pc' = [pc EXCEPT ![t] = "update_clear"]
               /\ UNCHANGED <<out, local>>
       /\ UNCHANGED <<articles, doctors, chat_messages, rec_logs, embedding_model, ret,
                      load_count, behaviors, profiles, updated_at, appointments, now,
                      recomputed_at, records>>

\* lines 179-183: appointment.save() writes every field of the instance;
\* unique_together (models.py:37) rejects a slot taken meanwhile
UpdateSave(t) ==
    LET mine == local[t].appointment
    IN /\ pc[t] = "update_clear"
       /\ IF \E i \in 1..Len(appointments) :
                 /\ appointments[i].id # mine.id
                 /\ appointments[i].doctor = mine.doctor
                 /\ appointments[i].appointment_date = mine.appointment_date
                 /\ appointments[i].appointment_time = mine.appointment_time
          THEN /\ Respond(t, "update", mine.id, local[t].seen, "500")
               /\ UNCHANGED appointments
          ELSE /\ appointments' = [appointments EXCEPT ![RowOf(appointments, mine.id)] = mine]
               /\ Respond(t, "update", mine.id, local[t].seen, "200")
       /\ UNCHANGED <<articles, doctors, chat_messages, rec_logs, embedding_model, ret,
                      load_count, behaviors, profiles, updated_at, now,
                      recomputed_at, records>>

\* lines 186-192: get_object and the status checks of cancel
CancelRead(t, pk, who) ==
    LET a == appointments[RowOf(appointments, pk)]
    IN /\ pc[t] = "idle"
       /\ IF ~Visible(a, who) THEN Respond(t, "cancel", pk, "hidden", "404")
          ELSE IF a.status \in {"cancelled", "completed"}
          THEN Respond(t, "cancel", pk, a.status, "400")
          ELSE Hold(t, "cancel", pk, a.status, [a EXCEPT !.status = "cancelled"], "cancel_read")
       /\ UNCHANGED <<articles, doctors, chat_messages, rec_logs, embedding_model, ret,
                      load_count, behaviors, profiles, updated_at, appointments, now,
                      recomputed_at, records>>

\* lines 197-199: appointment.save() writes every field of the instance
CancelSave(t) ==
    LET mine == local[t].appointment
    IN /\ pc[t] = "cancel_read"
       /\ appointments' = [appointments EXCEPT ![RowOf(appointments, mine.id)] = mine]
       /\ Respond(t, "cancel", mine.id, local[t].seen, "200")
       /\ UNCHANGED <<articles, doctors, chat_messages, rec_logs, embedding_model, ret,
                      load_count, behaviors, profiles, updated_at, now,
                      recomputed_at, records>>

\* lines 204-262: get_object, the owner check, the status checks, the
\* serializer, the time window (from the appointment's time to 30 minutes
\* later), the hospital's coordinates and the distance
CheckinRead(t, pk, who, position) ==
    LET a == appointments[RowOf(appointments, pk)]
    IN /\ pc[t] = "idle"
       /\ IF ~Visible(a, who) THEN Respond(t, "checkin", pk, "hidden", "404")
          ELSE IF a.user # who.id THEN Respond(t, "checkin", pk, a.status, "403")
          ELSE IF a.status \in {"cancelled", "checked-in", "completed"}
          THEN Respond(t, "checkin", pk, a.status, "400")
          ELSE IF position = "invalid" THEN Respond(t, "checkin", pk, a.status, "400")
          ELSE IF now < AppointmentInstant(a) \/ now > AppointmentInstant(a) + 30
          THEN Respond(t, "checkin", pk, a.status, "400")
          ELSE IF ~a.hospital.located THEN Respond(t, "checkin", pk, a.status, "500")
          ELSE IF position = "far" THEN Respond(t, "checkin", pk, a.status, "400")
          ELSE Hold(t, "checkin", pk, a.status,
                    [a EXCEPT !.status = "checked-in", !.checkin_time = now],
                    "checkin_read")
       /\ UNCHANGED <<articles, doctors, chat_messages, rec_logs, embedding_model, ret,
                      load_count, behaviors, profiles, updated_at, appointments, now,
                      recomputed_at, records>>

\* lines 264-275: save(update_fields=['status', 'checkin_time']) writes
\* these two fields
CheckinSave(t) ==
    LET mine == local[t].appointment
    IN /\ pc[t] = "checkin_read"
       /\ appointments' = [appointments EXCEPT ![RowOf(appointments, mine.id)] =
                              [@ EXCEPT !.status = mine.status,
                                        !.checkin_time = mine.checkin_time]]
       /\ Respond(t, "checkin", mine.id, local[t].seen, "200")
       /\ UNCHANGED <<articles, doctors, chat_messages, rec_logs, embedding_model, ret,
                      load_count, behaviors, profiles, updated_at, now,
                      recomputed_at, records>>

\* lines 278-292: the permission IsDoctor, get_object, the doctor check and
\* the status checks of complete
CompleteRead(t, pk, who) ==
    LET a == appointments[RowOf(appointments, pk)]
    IN /\ pc[t] = "idle"
       /\ IF who.role # "doctor" THEN Respond(t, "complete", pk, "hidden", "403")
          ELSE IF ~Visible(a, who) THEN Respond(t, "complete", pk, "hidden", "404")
          ELSE IF a.doctor # who.doctor_profile
          THEN Respond(t, "complete", pk, a.status, "403")
          ELSE IF a.status \in {"cancelled", "completed"}
          THEN Respond(t, "complete", pk, a.status, "400")
          ELSE Hold(t, "complete", pk, a.status, [a EXCEPT !.status = "completed"], "complete_read")
       /\ UNCHANGED <<articles, doctors, chat_messages, rec_logs, embedding_model, ret,
                      load_count, behaviors, profiles, updated_at, appointments, now,
                      recomputed_at, records>>

\* lines 294-296: appointment.save() writes every field of the instance
CompleteSave(t) ==
    LET mine == local[t].appointment
    IN /\ pc[t] = "complete_read"
       /\ appointments' = [appointments EXCEPT ![RowOf(appointments, mine.id)] = mine]
       /\ Respond(t, "complete", mine.id, local[t].seen, "200")
       /\ UNCHANGED <<articles, doctors, chat_messages, rec_logs, embedding_model, ret,
                      load_count, behaviors, profiles, updated_at, now,
                      recomputed_at, records>>

\* the steps of the request thread t
AppointmentStep(t) ==
    \/ \E pk \in {1, 2}, who \in Requesters, slot \in Slots : UpdateRead(t, pk, who, slot)
    \/ UpdateConflict(t)
    \/ UpdateSave(t)
    \/ \E pk \in {1, 2}, who \in Requesters : CancelRead(t, pk, who)
    \/ CancelSave(t)
    \/ \E pk \in {1, 2}, who \in Requesters, position \in Positions :
           CheckinRead(t, pk, who, position)
    \/ CheckinSave(t)
    \/ \E pk \in {1, 2}, who \in Requesters : CompleteRead(t, pk, who)
    \/ CompleteSave(t)

\* no request is being handled
AppointmentsQuiet == \A t \in Threads : pc[t] = "idle"

\* requests handled by two threads, their queries interleaving
NextAppointment == \E t \in AppointmentThreads : AppointmentStep(t)

SpecAppointment == InitAppointment /\ [][NextAppointment]_vars

\* requests handled one at a time: a request starts when no other is being
\* handled
NextAppointmentSerial ==
    \E t \in AppointmentThreads :
        /\ \A u \in AppointmentThreads \ {t} : pc[u] = "idle"
        /\ AppointmentStep(t)

SpecAppointmentSerial == InitAppointment /\ [][NextAppointmentSerial]_vars

(***************************************************************************)
(* Claims about the knowledge retriever and the embedding provider         *)
(***************************************************************************)
NoDuplicateIds(seq) ==
    \A i, j \in 1..Len(seq) : i # j => seq[i].id # seq[j].id

\* C5: retrieve_knowledge_snippets returns at most limit articles, each an
\* active article of the table, and none twice, on the vector path and on
\* the lexical path alike.
C5_AtMostLimitActiveDistinct ==
    out.op = "retrieve" =>
        /\ ~out.r.exc
        /\ Len(out.r.arts) <= out.limit
        /\ \A i \in 1..Len(out.r.arts) :
               out.r.arts[i].is_active /\ out.r.arts[i] \in Range(articles)
        /\ NoDuplicateIds(out.r.arts)

\* a vector-path answer that fills the limit while an inactive article with
\* the best similarity is stored
C5_Witness ==
    /\ out.op = "retrieve"
    /\ out.r.path = "vector"
    /\ out.limit >= 2
    /\ Len(out.r.arts) = out.limit
    /\ \E i \in 1..Len(articles) :
           ~articles[i].is_active /\ articles[i].embedding = out.emb.qvec

\* the embedding provider cannot give a question vector in this call
ProviderDown(call) ==
    \/ call.global = "None" /\ call.emb.load \in {"import_error", "import_raises", "load_fail"}
    \/ call.emb.encode = "raise"

\* C6: when the embedding provider is unavailable, fails to load or raises
\* on encode, retrieve_knowledge_snippets does not raise and returns the
\* lexical result for the question.
C6_FallbackTotality ==
    (out.op = "retrieve" /\ ProviderDown(out)) =>
        /\ ~out.r.exc
        /\ out.r.path = "lexical"
        /\ out.r.arts = lexical_retrieve(out.question, out.limit, articles)

\* the vector path was tried, the provider was down, the lexical path found
\* something
C6_Witness ==
    /\ out.op = "retrieve"
    /\ ProviderDown(out)
    /\ out.use_vector
    /\ \E i \in 1..Len(articles) : articles[i].is_active /\ articles[i].has_embedding
    /\ Len(out.r.arts) > 0

\* C7: the model load is executed at most once per process, and never by
\* two threads at once.
C7_LoadAtMostOnce ==
    /\ load_count <= 1
    /\ Cardinality({t \in Threads : pc[t] = "loading"}) <= 1

(***************************************************************************)
(* Claims about the chat turn                                              *)
(***************************************************************************)
\* the last step was a chat turn
Turned == out.op = "chat"

\* the last step was a chat turn that did not leave the handler by an exception
Answered == Turned /\ out.r.status # "crash"

\* C1: whatever the external calls do, a chat turn passes through all its
\* stages in order, persists the assistant reply and exactly one log entry,
\* and returns a success response with a non-empty answer.
C1_TurnAlwaysPersists ==
    Turned =>
        /\ out.r.stages = Stages
        /\ Len(out.r.messages) = 2 /\ out.r.messages[2].role = "assistant"
        /\ Len(out.r.logs) = 1
        /\ out.r.status = "ok"
        /\ Len(out.r.answer) > 0

\* the intent call of the last turn failed or did not return JSON text
IntentCallFailed == out.intent_call.kind \in {"llm_error", "not_json"}

\* C2: the intent used by the turn is always a record with the three
\* fields and a priority_level of info, normal or urgent; when the intent
\* call fails or returns no JSON it is the default intent and the turn
\* reports priority_level info.
C2_IntentAlwaysValid ==
    Turned =>
        /\ out.r.intent.kind = "dict"
        /\ out.r.intent.disease_category.k # "absent"
        /\ out.r.intent.recommended_department.k # "absent"
        /\ out.r.intent.priority_level.k = "str"
        /\ out.r.intent.priority_level.v \in SuggestionLevels
        /\ IntentCallFailed =>
               /\ out.r.intent = DefaultIntent
               /\ out.r.status = "ok"
               /\ out.r.suggestion_level = JStr(<<"info">>)

\* C3: every doctor of the log entry and of the response of a turn is one
\* of the candidates offered to the answer generator in that turn and its
\* name occurs in the answer; the log entry and the response hold the same
\* doctors; without candidates the list is empty.
C3_OnlyNamedCandidates ==
    Answered =>
        /\ \A i \in 1..Len(out.r.recommended_doctors) :
               /\ out.r.recommended_doctors[i] \in Range(out.r.candidates)
               /\ Contains(out.r.answer, out.r.recommended_doctors[i].name)
        /\ \A i \in 1..Len(out.r.logs) :
               out.r.logs[i].recommended_doctors = out.r.recommended_doctors
        /\ rec_logs[Len(rec_logs)] = out.r.logs[1]
        /\ Len(out.r.candidates) = 0 => out.r.recommended_doctors = <<>>

\* a turn after an earlier one of the same intent, in which the answer
\* names one of two remaining candidates and a doctor that is no candidate
C3_Witness ==
    /\ Answered
    /\ out.r.used # {}
    /\ Len(out.r.candidates) >= 2
    /\ Len(out.r.recommended_doctors) = 1
    /\ \E i \in 1..Len(doctors) :
           /\ doctors[i].name \notin {out.r.candidates[j].name :
                                         j \in 1..Len(out.r.candidates)}
           /\ Contains(out.r.answer, doctors[i].name)

\* the doctor ids of a list of doctor summaries
Ids(seq) == {seq[i].id : i \in 1..Len(seq)}

\* the log entries of the last turn's user that the turn found stored,
\* oldest first
MineBefore ==
    LET Mine(l) == l.user = out.user
    IN SelectSeq(SubSeq(rec_logs, 1, Len(rec_logs) - Len(out.r.logs)), Mine)

\* same disease_category and same recommended_department
SameIntent(a, b) ==
    /\ a.disease_category = b.disease_category
    /\ a.recommended_department = b.recommended_department

\* the user's previous turn had the intent of the last turn
FollowsSameIntent ==
    /\ Answered
    /\ Len(MineBefore) > 0
    /\ SameIntent(MineBefore[Len(MineBefore)].structured_intent, out.r.intent)

\* the ranker's list without the doctors of removed, or the whole list if
\* nothing else is left
Without(removed) ==
    LET Other(d) == d.id \notin removed
        rest == SelectSeq(out.r.candidates_all, Other)
    IN IF Len(rest) > 0 THEN rest ELSE out.r.candidates_all

\* C4 as stated: when the user's previous turn had the same intent and
\* recorded doctors, the candidates are the ranker's list without those
\* doctors, or the ranker's full list when nothing else remains.
C4_PreviousTurnRemoved ==
    (FollowsSameIntent /\ Ids(MineBefore[Len(MineBefore)].recommended_doctors) # {}) =>
        out.r.candidates = Without(Ids(MineBefore[Len(MineBefore)].recommended_doctors))

\* the doctors recorded by the user's recent turns of the last turn's intent
RecordedForIntent ==
    LET n == Len(MineBefore)
        first == IF n > recent_log_window THEN n - recent_log_window + 1 ELSE 1
    IN UNION {Ids(MineBefore[i].recommended_doctors) :
                  i \in {j \in first..n :
                             SameIntent(MineBefore[j].structured_intent, out.r.intent)}}

\* C4 amended: the candidates of a turn are the ranker's list without the
\* doctors recorded by any of the user's 20 most recent turns of the same
\* intent, or the ranker's full list when nothing else remains; a
\* non-empty ranker list never becomes empty.
C4_RecentTurnsRemoved ==
    Answered =>
        /\ out.r.candidates = Without(RecordedForIntent)
        /\ Len(out.r.candidates_all) > 0 => Len(out.r.candidates) > 0

\* a third turn of one intent: doctors of both earlier turns are removed
\* and another candidate remains
C4_Witness ==
    /\ FollowsSameIntent
    /\ RecordedForIntent # Ids(MineBefore[Len(MineBefore)].recommended_doctors)
    /\ Ids(MineBefore[Len(MineBefore)].recommended_doctors) # {}
    /\ Len(out.r.candidates) > 0
    /\ Len(out.r.candidates) < Len(out.r.candidates_all)

(***************************************************************************)
(* Claims about the personalized recommendation                            *)
(***************************************************************************)
\* the last step was a ranking request
Ranked == out.op = "rank"

\* the rule-based ranking for the request of the last step
RuleBasedOutput ==
    rule_based_rank(out.intent, out.question, out.knowledge_list, out.limit, doctors)

\* the last step was a ranking request, with the smart flag on, of a user
\* with at least one and fewer than min_behaviors behaviors, whose count
\* query succeeded
FewBehaviorsRequest ==
    /\ Ranked
    /\ out.use_smart /\ out.user_id # 0
    /\ out.fault = "none"
    /\ behavior_count(out.user_id, behaviors) > 0
    /\ behavior_count(out.user_id, behaviors) < min_behaviors

PersonalizedFailed ==
    /\ Ranked
    /\ out.use_smart /\ out.user_id # 0
    /\ \/ out.fault # "none"
       \/ "base" \in Range(out.r.ran) /\ "rule" \in Range(out.r.ran)

\* C9: when a step of the personalized path raises, or the path gives no
\* doctor, retrieve_doctors_by_intent does not raise and returns the
\* rule-based output for the same intent, question and knowledge list.
C9_FallbackToRuleBased ==
    PersonalizedFailed =>
        /\ ~out.r.exc
        /\ out.r.path = "rule"
        /\ out.r.result = RuleBasedOutput

\* a recommender raised for a user above the threshold, and the rule-based
\* output that was returned used the knowledge list
C9_Witness ==
    /\ PersonalizedFailed
    /\ out.fault \in {"cf", "cb", "convert"}
    /\ behavior_count(out.user_id, behaviors) >= min_behaviors
    /\ Len(out.knowledge_list) > 0
    /\ Len(out.r.result) > 0

\* C10: content_based_recommend, called for a stored user without a
\* profile, returns an empty list and leaves the stored profiles as they
\* were.
C10_NoProfileCreated ==
    (out.op = "content" /\ out.user_id \in RankUsers
        /\ out.user_id \notin DOMAIN out.profiles) =>
        /\ out.r.recs = <<>>
        /\ profiles = out.profiles


(***************************************************************************)
(* Claims about the user profile                                           *)
(***************************************************************************)
\* C11: update_user_profile(user, force) is a no-op exactly when force is
\* false and the profile of the user was last recomputed less than one hour
\* earlier; when forced, or when the last recomputation is at least an hour
\* old or never happened, every preference field is recomputed from the
\* appointments of the user and saved.
C11_NoOpExactlyWithinTheHour ==
    out.op = "update" =>
        LET user == out.user
            recent == /\ user \in DOMAIN out.recomputed_at
                      /\ out.now - out.recomputed_at[user] < OneHour
        IN IF ~out.force_update /\ recent
           THEN /\ user \in DOMAIN out.profiles
                /\ profiles[user] = out.profiles[user]
           ELSE profiles[user] = Recomputed(user, appointments, doctors)

\* a call without force, less than an hour after get_user_profile created
\* the row, for a user with an appointment whose profile was never recomputed
C11_NeverRecomputedSkipped ==
    /\ out.op = "update"
    /\ ~out.force_update
    /\ out.user \notin DOMAIN out.recomputed_at
    /\ out.r.skipped
    /\ profiles[out.user] = NewProfile
    /\ calculate_specialty_preference(out.user, appointments, doctors) # <<>>


(***************************************************************************)
(* Claims about doctors without a hospital                                 *)
(***************************************************************************)
\* the candidates of the last turn that have no hospital and that the
\* answer names
NamedWithoutHospital ==
    {i \in 1..Len(out.r.candidates) :
        /\ out.r.candidates[i].department_name = <<>>
        /\ Contains(out.r.answer, out.r.candidates[i].name)}

\* C12: a doctor without a hospital never makes a chat turn fail: a turn
\* whose answer names such a candidate (the ranker returned its summary with
\* an empty hospital name) completes with a success response that lists the
\* doctor.
C12_NoHospitalTurnSucceeds ==
    (Answered /\ NamedWithoutHospital # {}) =>
        /\ out.r.status = "ok"
        /\ \A i \in NamedWithoutHospital :
               out.r.candidates[i] \in Range(out.r.recommended_doctors)


(***************************************************************************)
(* Claims about the rule-based ranker                                      *)
(***************************************************************************)
\* the last step was a call of the rule-based ranker
RuleRanked == out.op = "rule"

\* the result of the last call comes from the exact-match branch
ExactResult == RuleRanked /\ Len(out.r) > 0 /\ out.r[1].is_exact_match

\* doctors of the table that agree on is_online, score and reviews
TiedRows(a, b) ==
    /\ a.id # b.id
    /\ a.is_online = b.is_online /\ a.score = b.score /\ a.reviews = b.reviews

\* C13: for fixed doctors, intent, question, knowledge list and limit the
\* rule-based ranker returns the same doctors in the same order on every
\* call, in whatever order the database scans the rows, also when doctors
\* tie on tier, is_online, score and reviews.
C13_SameResultOnEveryCall ==
    RuleRanked =>
        out.r = rule_based_rank(out.intent, out.question, out.knowledge_list, out.limit,
                                doctors)

\* a call that scanned the rows in another order than the table's and
\* returned two doctors that tie on everything but the id
C13_Witness ==
    /\ RuleRanked
    /\ out.scan # doctors
    /\ \E i \in 1..Len(out.r) : \E j \in (i + 1)..Len(out.r) :
           /\ TiedRows(out.r[i], out.r[j])
           /\ \E k, l \in 1..Len(out.scan) :
                  k > l /\ out.scan[k].id = out.r[i].id /\ out.scan[l].id = out.r[j].id


\* the tier of a returned doctor: 1 when the specialty equals the
\* department or the disease category, 2 when the specialty contains one of
\* them or the name contains a name-like word of the question, 3 when the
\* introduction or the experience contains the department, 4 otherwise
TierOf(d, intent, question) ==
    LET dept_name == IntentText(intent, "recommended_department")
        terms == {dept_name, IntentText(intent, "disease_category")} \ {<<>>}
        names == Range(NameWords(FindAllCjk(question)))
    IN IF \E t \in terms : IExact(d.specialty, t) THEN 1
       ELSE IF \/ \E t \in terms : IContains(d.specialty, t)
               \/ \E w \in names : IContains(d.name, w) THEN 2
       ELSE IF /\ dept_name # <<>>
               /\ \/ IContains(d.introduction, dept_name)
                  \/ IContains(d.experience, dept_name) THEN 3
       ELSE 4

\* a comes before b: by tier, then online first, then the higher score, then
\* the more reviews, then the lower id
InClaimedOrder(a, b, ta, tb) ==
    IF ta # tb THEN ta < tb
    ELSE IF a.is_online # b.is_online THEN a.is_online
    ELSE IF a.score # b.score THEN a.score > b.score
    ELSE IF a.reviews # b.reviews THEN a.reviews > b.reviews
    ELSE a.id < b.id

\* the tiers of the doctors of the last result
TiersReturned ==
    {TierOf(out.r[i], out.intent, out.question) : i \in 1..Len(out.r)}

\* C16: in an exact-match result the doctors are ordered by tier (1 before
\* 2 before 3 before 4) and, within a tier, by is_online descending, score
\* descending, reviews descending and id ascending.
C16_TierThenTieBreak ==
    ExactResult =>
        \A i \in 1..Len(out.r) : \A j \in (i + 1)..Len(out.r) :
            InClaimedOrder(out.r[i], out.r[j], TierOf(out.r[i], out.intent, out.question),
                           TierOf(out.r[j], out.intent, out.question))

\* an exact-match result with doctors of all four tiers, in which a doctor
\* of a better tier precedes one with a higher score, and a tie is broken
\* by the id
C16_Witness ==
    /\ ExactResult
    /\ TiersReturned = {1, 2, 3, 4}
    /\ \E i \in 1..Len(out.r) : \E j \in (i + 1)..Len(out.r) :
           out.r[i].score < out.r[j].score
    /\ \E i \in 1..Len(out.r) : \E j \in (i + 1)..Len(out.r) :
           /\ TiedRows(out.r[i], out.r[j])
           /\ TierOf(out.r[i], out.intent, out.question)
                  = TierOf(out.r[j], out.intent, out.question)


\* the matching predicate of the last call
LastQuery == BuildQuery(out.intent, out.question, out.knowledge_list)

NoIntentPredicate ==
    /\ IntentText(out.intent, "recommended_department") = <<>>
    /\ IntentText(out.intent, "disease_category") \in {<<>>, Unknown}

\* oral medicine, oral surgery, orthodontics department, paediatric
\* dentistry department
FourDepartmentNames ==
    {<<"kou", "qiang", "nei", "ke">>, <<"kou", "qiang", "wai", "ke">>,
     <<"zheng", "ji", "ke">>, <<"er", "tong", "kou", "qiang", "ke">>}

\* the knowledge list of the last call gives no predicate: every tag is one
\* of the four generic department names
OnlyGenericTags ==
    \A i \in 1..Len(out.knowledge_list) :
        Range(TagsOf(out.knowledge_list[i])) \subseteq FourDepartmentNames

\* the last call matched on the question, which contains a specialty term
MatchedOnSpecialtyTerm ==
    /\ RuleRanked
    /\ NoIntentPredicate
    /\ OnlyGenericTags
    /\ WholePhraseHit(out.question) # 0

\* the canonical specialty of the first specialty term of the question
CanonicalSpecialty == specialty_mapping[WholePhraseHit(out.question)][2]

\* the doctors of the last result returned as exact matches
ExactMatches == {i \in 1..Len(out.r) : out.r[i].is_exact_match}

\* the name-like keywords of the question: 2 to 4 characters, among the
\* first five keywords
NameKeywords ==
    LET keywords == Take(Keywords(out.question, RankerStopWords), 5)
    IN {keywords[i] : i \in {j \in 1..Len(keywords) :
                                Len(keywords[j]) >= 2 /\ Len(keywords[j]) <= 4}}

\* C17 as stated: when the intent and the knowledge tags yield no predicate
\* and the question contains a specialty term, every doctor returned with
\* is_exact_match = true has a specialty containing the canonical specialty;
\* none is admitted through its introduction, experience or name.
C17_SpecialtyOnly ==
    MatchedOnSpecialtyTerm =>
        \A i \in ExactMatches : IContains(out.r[i].specialty, CanonicalSpecialty)

\* C17 amended: in that case every doctor returned with is_exact_match =
\* true has a specialty containing the canonical specialty or a name
\* containing a name-like keyword of the question; none is admitted through
\* its introduction or experience.
C17_SpecialtyOrName ==
    MatchedOnSpecialtyTerm =>
        \A i \in ExactMatches :
            \/ IContains(out.r[i].specialty, CanonicalSpecialty)
            \/ \E w \in NameKeywords : IContains(out.r[i].name, w)

\* a call in that case, not cut by the limit, that returned a doctor for its
\* specialty and one for its name, and left out a doctor whose experience
\* contains the canonical specialty
C17_Witness ==
    /\ MatchedOnSpecialtyTerm
    /\ Len(out.r) < 2 * out.limit
    /\ \E i \in ExactMatches : IContains(out.r[i].specialty, CanonicalSpecialty)
    /\ \E i \in ExactMatches : ~IContains(out.r[i].specialty, CanonicalSpecialty)
    /\ \E j \in 1..Len(doctors) :
           /\ IContains(doctors[j].experience, CanonicalSpecialty)
           /\ \A i \in 1..Len(out.r) : out.r[i].id # doctors[j].id


\* C20: a knowledge article whose tags are only the four generic department
\* names adds no matching predicate: the result equals the result for the
\* same intent, question and limit with an empty knowledge list.
C20_GenericTagsAddNothing ==
    (RuleRanked /\ OnlyGenericTags) =>
        out.r = rule_based_rank(out.intent, out.question, <<>>, out.limit, doctors)

\* a call with an article tagged with generic names only, one of which
\* occurs in the specialty of a doctor that the call did not return
C20_Witness ==
    /\ RuleRanked
    /\ OnlyGenericTags
    /\ Len(out.r) > 0
    /\ Len(out.r) < 2 * out.limit
    /\ \E i \in 1..Len(out.knowledge_list) :
           \E t \in Range(TagsOf(out.knowledge_list[i])) :
               \E j \in 1..Len(doctors) :
                   /\ IContains(doctors[j].specialty, t)
                   /\ \A k \in 1..Len(out.r) : out.r[k].id # doctors[j].id


(***************************************************************************)
(* Claims about the order of the retrieved articles                        *)
(***************************************************************************)
\* the last step was a retrieval over scanned rows
Scanned == out.op = "scan"

\* the position of the article with this id among the scanned rows
ScanPosition(id) == CHOOSE k \in 1..Len(out.scan) : out.scan[k].id = id

\* the similarity of a to the question is at least 0.3
AboveThreshold(a) ==
    /\ a.is_active /\ a.has_embedding
    /\ Len(a.embedding) = Len(out.emb.qvec)
    /\ SimAtLeast(a.embedding, out.emb.qvec, 3, 10)

\* the vector path was entered: use_vector is set, an active article has an
\* embedding, and the provider loads and encodes the question
VectorPathEntered ==
    /\ Scanned
    /\ out.use_vector
    /\ \E i \in 1..Len(articles) : articles[i].is_active /\ articles[i].has_embedding
    /\ ~ProviderDown([global |-> "None", emb |-> out.emb])

\* a and b are returned in this order: a is more similar, or as similar and
\* scanned earlier
InSimilarityOrder(a, b) ==
    \/ SimGreater(a.embedding, b.embedding, out.emb.qvec)
    \/ /\ ~SimGreater(b.embedding, a.embedding, out.emb.qvec)
       /\ ScanPosition(a.id) < ScanPosition(b.id)

\* the result is as C14 says: only articles of similarity at least 0.3,
\* by descending similarity with ties in the order of the candidates, cut to
\* limit (an article left out is not ahead of one returned)
ThresholdSortedCut ==
    /\ \A i \in 1..Len(out.r.arts) : AboveThreshold(out.r.arts[i])
    /\ \A i \in 1..Len(out.r.arts) : \A j \in (i + 1)..Len(out.r.arts) :
           InSimilarityOrder(out.r.arts[i], out.r.arts[j])
    /\ Len(out.r.arts) <= out.limit
    /\ \A k \in 1..Len(out.scan) :
           (AboveThreshold(out.scan[k]) /\ out.scan[k] \notin Range(out.r.arts)) =>
               /\ Len(out.r.arts) = out.limit
               /\ \A i \in 1..Len(out.r.arts) : InSimilarityOrder(out.r.arts[i], out.scan[k])

\* C14 as stated: when the vector path is taken (use_vector set, an active
\* article with an embedding, the question encoded), the result consists
\* only of articles of similarity at least 0.3, ordered by descending
\* similarity with ties in the candidates' order, cut to limit.
C14_VectorPathEntered ==
    VectorPathEntered => ThresholdSortedCut

\* C14 amended: the same when, in addition, the vector retrieval returned an
\* article, that is when the result comes from the vector path.
C14_VectorResult ==
    (Scanned /\ out.r.path = "vector") => ThresholdSortedCut

\* a vector result cut by the limit in which two articles of the same
\* similarity come in the scan order, against their ids
C14_Witness ==
    /\ VectorPathEntered
    /\ out.r.path = "vector"
    /\ Len(out.r.arts) = out.limit
    /\ \E k \in 1..Len(out.scan) :
           AboveThreshold(out.scan[k]) /\ out.scan[k] \notin Range(out.r.arts)
    /\ \E i \in 1..Len(out.r.arts) : \E j \in (i + 1)..Len(out.r.arts) :
           /\ ~SimGreater(out.r.arts[i].embedding, out.r.arts[j].embedding, out.emb.qvec)
           /\ out.r.arts[i].id > out.r.arts[j].id

\* C15: on the lexical path the retriever returns the matching active
\* articles in ascending id order: the first limit matches by id, the same
\* on every call for the same articles and question.
C15_LexicalInIdOrder ==
    (Scanned /\ out.r.path = "lexical") =>
        out.r.arts = lexical_retrieve(out.question, out.limit, articles)


(***************************************************************************)
(* Claims about the collaborative filter                                   *)
(***************************************************************************)
\* the doctors both users of the last call have a behavior with
SharedDoctors ==
    DoctorIdsOf(out.user1_id, behaviors) \cap DoctorIdsOf(out.user2_id, behaviors)

\* the action-weighted score sums of a user are all zero
ZeroVector(user_id) ==
    \A d \in DoctorIdsOf(user_id, behaviors) : UserDoctorScore(user_id, d, behaviors) = 0

\* the dot product over the shared doctors of the two users of the last call
SharedDotProduct ==
    LET common_doctors == Ascending(SharedDoctors)
    IN Sum([i \in 1..Len(common_doctors) |->
               UserDoctorScore(out.user1_id, common_doctors[i], behaviors)
                   * UserDoctorScore(out.user2_id, common_doctors[i], behaviors)])

\* the squared norm of a user's vector
SquaredNorm(user_id) ==
    LET user_doctors == Ascending(DoctorIdsOf(user_id, behaviors))
    IN Sum([i \in 1..Len(user_doctors) |->
               UserDoctorScore(user_id, user_doctors[i], behaviors)
                   * UserDoctorScore(user_id, user_doctors[i], behaviors)])

\* C18: the similarity of two users is in [0, 1] for any stored behavior
\* rows, and is 0 when the users share no doctor or the vector of either has
\* zero norm.  The upper end is stated on the integers the quotient is made
\* of (dot / (norm1 * norm2) <= 1 exactly when dot * dot <= squares1 *
\* squares2 for a dot that is not negative), since Sqrt100 drops digits.
C18_SimilarityInUnitInterval ==
    out.op = "similarity" =>
        /\ out.r >= 0
        /\ SharedDotProduct * SharedDotProduct
               <= SquaredNorm(out.user1_id) * SquaredNorm(out.user2_id)
        /\ (SharedDoctors = {} \/ ZeroVector(out.user1_id) \/ ZeroVector(out.user2_id))
               => out.r = 0

(***************************************************************************)
(* Claims about the reconciliation of a chat turn                          *)
(***************************************************************************)
\* the candidates of the last turn whose name occurs in the answer
NamedCandidates ==
    {out.r.candidates[i].id : i \in {j \in 1..Len(out.r.candidates) :
                                         Contains(out.r.answer, out.r.candidates[j].name)}}

\* the last turn offered two candidates of one name and the answer has it
NamesakesNamed ==
    /\ Answered
    /\ \E i, j \in 1..Len(out.r.candidates) :
           /\ i # j
           /\ out.r.candidates[i].name = out.r.candidates[j].name
           /\ Contains(out.r.answer, out.r.candidates[i].name)

\* C21: the recommended doctors of a turn are exactly the candidates whose
\* name occurs in the answer, every one of them also when two candidates
\* have the same name, and none when the answer names no candidate.
C21_ExactlyTheNamedCandidates ==
    Answered => Ids(out.r.recommended_doctors) = NamedCandidates

\* the part of the statement that is about candidates of distinct names
C21_DistinctNamesReconciled ==
    (Answered /\ NoDuplicateIds(out.r.candidates)
        /\ \A i, j \in 1..Len(out.r.candidates) :
               out.r.candidates[i].name = out.r.candidates[j].name => i = j)
        => Ids(out.r.recommended_doctors) = NamedCandidates

(***************************************************************************)
(* Claims about the deduplication of a chat turn                           *)
(***************************************************************************)
\* the doctors of the ranker's list that the last turn did not offer
Removed == Ids(out.r.candidates_all) \ Ids(out.r.candidates)

\* the doctors recorded in any log entry the last turn found stored
RecordedAnywhere ==
    UNION {Ids(rec_logs[i].recommended_doctors) :
               i \in 1..(Len(rec_logs) - Len(out.r.logs))}

\* C22: the doctors removed by deduplication are exactly those recorded in
\* the entries, among the user's 20 most recent log entries, whose
\* disease_category and recommended_department equal the turn's; a doctor
\* recorded only under another intent, by another user or in an older entry
\* is never removed.
C22_RemovedExactlyRecorded ==
    Answered =>
        /\ Removed = Ids(out.r.candidates_all) \cap RecordedForIntent
        /\ Removed \cap (RecordedAnywhere \ RecordedForIntent) = {}

\* C22 amended: the same, unless every candidate is so recorded, and then
\* no doctor is removed.
C22_RemovedRecordedUnlessAll ==
    Answered =>
        /\ Removed = IF Ids(out.r.candidates_all) \subseteq RecordedForIntent THEN {}
                     ELSE Ids(out.r.candidates_all) \cap RecordedForIntent
        /\ Removed \cap (RecordedAnywhere \ RecordedForIntent) = {}

\* a turn of a user with more than 20 log entries: a doctor recorded in the
\* oldest one under the turn's intent is offered again, a doctor recorded
\* since is removed
C22_Witness ==
    /\ Answered
    /\ Len(MineBefore) > recent_log_window
    /\ SameIntent(MineBefore[1].structured_intent, out.r.intent)
    /\ Ids(MineBefore[1].recommended_doctors) \cap Ids(out.r.candidates) # {}
    /\ Removed # {}

(***************************************************************************)
(* Claims about the is_exact_match flag of the rule-based ranker           *)
(***************************************************************************)
\* the rows of the doctor table that satisfy the predicate of the last call
Satisfying == {i \in 1..Len(doctors) : Matches(doctors[i], LastQuery)}

\* a predicate was built and some doctor satisfies it
PredicateSatisfied == LastQuery # {} /\ Satisfying # {}

\* the question of the scenario, without an intent and without knowledge,
\* over the two doctors of the scenario
ScenarioCall ==
    /\ RuleRanked
    /\ doctors = ScenarioDoctors
    /\ out.intent = DefaultIntent /\ out.question = QBraces /\ out.knowledge_list = <<>>
    /\ out.limit >= 1

\* C23: all entries of a result of the rule-based ranker carry the same
\* is_exact_match; it is true exactly when a predicate was built and some
\* doctor satisfies it, and then every returned doctor satisfies it; it is
\* false otherwise, and then the result is drawn from all doctors.  For the
\* question QBraces with one doctor of specialty zheng ji and one of kou
\* qiang wai ke the former comes first, flagged.
C23_OneFlagPerResult ==
    RuleRanked =>
        /\ \A i \in 1..Len(out.r) :
               /\ out.r[i].is_exact_match = PredicateSatisfied
               /\ out.r[i].is_exact_match =>
                      \E j \in Satisfying : doctors[j].id = out.r[i].id
        /\ ~PredicateSatisfied =>
               /\ Ids(out.r) \subseteq Ids(doctors)
               /\ Len(out.r) = Min(2 * out.limit, Len(doctors))
        /\ ScenarioCall =>
               /\ out.r[1].id = DocLi.id
               /\ out.r[1].is_exact_match

\* the scenario call: a predicate on the specialty that one of the two
\* doctors satisfies
C23_Witness ==
    /\ ScenarioCall
    /\ PredicateSatisfied
    /\ Cardinality(Satisfying) < Len(doctors)
    /\ Len(out.r) = 1

\* a call whose predicate no doctor satisfies: unflagged doctors
C23_FallbackReached ==
    /\ RuleRanked
    /\ LastQuery # {}
    /\ Satisfying = {}
    /\ Len(out.r) > 1

(***************************************************************************)
(* Claims about the name conditions of the rule-based ranker               *)
(***************************************************************************)
\* a token that looks like a person name: 2 to 4 characters, all CJK
LooksLikeName(w) ==
    /\ Len(w) >= 2 /\ Len(w) <= 4
    /\ \A k \in 1..Len(w) : Class(w[k]) = "cjk"

\* the name conditions of the predicate of the last call
NameConditions == {c \in LastQuery : c[1] = "name"}

\* the returned doctors that satisfy no condition of the predicate but name
\* conditions on keywords that do not look like a name
AdmittedByOddName ==
    {i \in ExactMatches :
        /\ \E c \in NameConditions : ~LooksLikeName(c[2]) /\ IContains(out.r[i].name, c[2])
        /\ \A c \in LastQuery :
               Matches(out.r[i], {c}) => (c[1] = "name" /\ ~LooksLikeName(c[2]))}

\* C24: a name condition is added to the predicate only for keywords of 2
\* to 4 CJK characters; a keyword of digits or Latin letters, or of more
\* than 4 characters, never admits a doctor through its name.
C24_NameMatchOnlyForCjkNames ==
    RuleRanked =>
        /\ \A c \in NameConditions : LooksLikeName(c[2])
        /\ AdmittedByOddName = {}

\* the part of the statement about the length: no name condition on a
\* keyword shorter than 2 or longer than 4 characters
C24_NameMatchOnlyForShortKeywords ==
    RuleRanked => \A c \in NameConditions : Len(c[2]) >= 2 /\ Len(c[2]) <= 4

(***************************************************************************)
(* Claims about the hybrid recommender                                     *)
(***************************************************************************)
\* the last step was a call of hybrid_recommend
Hybrid == out.op = "hybrid"

\* the three lists the last call merged
CfList == collaborative_filtering_recommend(out.user_id, out.limit * 2, behaviors, doctors)
CbList ==
    content_based_recommend(out.user_id, out.limit * 2, behaviors, doctors, out.profiles,
                            RankUsers).recs
BaseList == rule_based_rank(out.intent, out.question, <<>>, out.limit * 2, doctors)

\* the score of doctor d in a list of the collaborative filter or of the
\* content-based recommender: 0 where the list does not hold d
ScoreIn(list, field, d) ==
    IF \E i \in 1..Len(list) : list[i].doctor.id = d
    THEN list[CHOOSE i \in 1..Len(list) : list[i].doctor.id = d][field] ELSE 0

\* (N - rank index) / N in units of 1/10000, the rank index counted from 0
BaseScoreIn(base, d) ==
    IF \E i \in 1..Len(base) : base[i].id = d
    THEN ((Len(base) - ((CHOOSE i \in 1..Len(base) : base[i].id = d) - 1)) * 10000)
             \div Len(base)
    ELSE 0

\* the doctors of the three lists
MergedIds(cf, cb, base) ==
    {cf[i].doctor.id : i \in 1..Len(cf)} \cup {cb[i].doctor.id : i \in 1..Len(cb)}
        \cup Ids(base)

\* recs is the merge of the three lists as C25 has it
MergedAsClaimed(recs, cf, cb, base, limit) ==
    /\ \A i, j \in 1..Len(recs) : recs[i].doctor.id = recs[j].doctor.id => i = j
    /\ \A i \in 1..Len(recs) :
           /\ recs[i].doctor.id \in MergedIds(cf, cb, base)
           /\ recs[i].cf_score = ScoreIn(cf, "cf_score", recs[i].doctor.id)
           /\ recs[i].cb_score = ScoreIn(cb, "cb_score", recs[i].doctor.id)
           /\ recs[i].base_score = BaseScoreIn(base, recs[i].doctor.id)
           /\ recs[i].score * 10
                  <= 4 * recs[i].cf_score + 4 * recs[i].cb_score + 2 * recs[i].base_score
           /\ recs[i].score * 10 + 10
                  > 4 * recs[i].cf_score + 4 * recs[i].cb_score + 2 * recs[i].base_score
    /\ \A i \in 1..(Len(recs) - 1) : recs[i].score >= recs[i + 1].score
    /\ Len(recs) = Min(limit, Cardinality(MergedIds(cf, cb, base)))

\* C25: hybrid_recommend merges the three lists by doctor id: a doctor is in
\* the output at most once, with the score 0.4 * cf_score + 0.4 * cb_score +
\* 0.2 * base_score, a missing component counting 0 and base_score =
\* (N - rank index) / N; the output is in descending order of the score and
\* has at most limit entries.  The score is compared up to the last digit
\* kept (1/10000).
C25_MergedByDoctorId ==
    Hybrid => MergedAsClaimed(out.r.recs, CfList, CbList, BaseList, out.limit)

\* recs holds a doctor found by all three recommenders and a doctor that
\* one of the lists lacks, and is shorter than the merge of the lists
MergeCaseHappens(recs, cf, cb, base) ==
    /\ Len(recs) >= 2
    /\ \E i \in 1..Len(recs) :
           recs[i].cf_score > 0 /\ recs[i].cb_score > 0 /\ recs[i].base_score > 0
    /\ \E i \in 1..Len(recs) :
           \/ \A k \in 1..Len(cf) : cf[k].doctor.id # recs[i].doctor.id
           \/ \A k \in 1..Len(cb) : cb[k].doctor.id # recs[i].doctor.id
           \/ recs[i].doctor.id \notin Ids(base)
    /\ Cardinality(MergedIds(cf, cb, base)) > Len(recs)

\* a call that merged a doctor found by all three recommenders with a
\* doctor that one list lacks, and cut the merge to the limit
C25_Witness == Hybrid /\ MergeCaseHappens(out.r.recs, CfList, CbList, BaseList)

(***************************************************************************)
(* Claims about the rating of a visit                                      *)
(***************************************************************************)
\* no rating request is in flight
RatingsQuiet == \A t \in Threads : pc[t] \in {"idle", "done"}

\* the records that have become rated
RatedRecords == {i \in 1..Len(records) : records[i].rated}

\* C26: after any interleaving of concurrent rating requests each record
\* has been rated at most once, and the reviews count of the doctor has
\* grown by exactly the number of records that became rated.
C26_RatingsAtomic ==
    (records # <<>> /\ RatingsQuiet) =>
        /\ \A i \in 1..Len(records) : records[i].saves <= 1
        /\ doctors[1].reviews = DocZhang.reviews + Cardinality(RatedRecords)

(***************************************************************************)
(* Claims about what a chat turn persists                                  *)
(***************************************************************************)
\* the number of stored chat messages of a user with a role
MessageCount(user, role) ==
    Cardinality({i \in 1..Len(chat_messages) :
                     chat_messages[i].user = user /\ chat_messages[i].role = role})

\* the number of stored recommendation log entries of a user
LogCount(user) == Cardinality({i \in 1..Len(rec_logs) : rec_logs[i].user = user})

\* C27: after any sequence of chat turns, completed or ended in an error,
\* the stored history of every user holds as many assistant messages as
\* user messages, and one recommendation log entry per user message.
C27_TurnAllOrNothing ==
    \A user \in Users :
        /\ MessageCount(user, "assistant") = MessageCount(user, "user")
        /\ LogCount(user) = MessageCount(user, "user")

\* the same for the turns that did not leave the handler by an exception
C27_CompletedTurnsPersistAll ==
    (\A i \in 1..Len(chat_messages) :
         chat_messages[i].role = "user" =>
             i < Len(chat_messages) /\ chat_messages[i + 1].role = "assistant")
        => \A user \in Users : LogCount(user) = MessageCount(user, "user")

(***************************************************************************)
(* Claims about follow-up turns and new doctors                            *)
(***************************************************************************)
\* the doctors that the matching of the ranker admits in the turn just made
\* (retrieval.py:337-343: the rows that satisfy the query)
AdmittedByMatching ==
    {doctors[i].id : i \in {j \in 1..Len(doctors) :
        Matches(doctors[j], BuildQuery(out.r.intent, out.message, out.r.knowledge))}}

\* the doctors offered to the answer generator in the turn just made
OfferedIds == {out.r.candidates[i].id : i \in 1..Len(out.r.candidates)}

\* a turn that went through deduplication
TurnDeduplicated == out.op = "chat" /\ out.r.status # "crash"

\* C28: whenever some doctor that the matching of the ranker admits is not
\* yet recorded as recommended for the intent in the user's recent log, the
\* deduplicated candidate list of the turn contains at least one doctor
\* that is not yet recorded
C28_FollowUpOffersNewDoctor ==
    (TurnDeduplicated /\ AdmittedByMatching \ out.r.used # {})
        => OfferedIds \ out.r.used # {}

\* the same for turns in which no more doctors match than the ranker
\* returns
C28_NewDoctorWhenAllReturned ==
    (TurnDeduplicated /\ AdmittedByMatching \ out.r.used # {}
        /\ Cardinality(AdmittedByMatching) <= 2 * chat_limit)
        => OfferedIds \ out.r.used # {}

(***************************************************************************)
(* Claims about the chat and the stored behaviors and profiles             *)
(***************************************************************************)
\* the recommendation log as it was before the turn just made
LogsBeforeTurn == SubSeq(rec_logs, 1, Len(rec_logs) - Len(out.r.logs))

\* the candidates of the turn just made, had the stored UserBehavior rows
\* been behs and the stored UserProfile rows profs, everything else equal
CandidatesWith(behs, profs) ==
    chat_recommend(out.user, out.message, out.r.intent, out.r.answer,
                   [arts |-> out.r.knowledge, global |-> out.r.global],
                   doctors, LogsBeforeTurn, behs, profs).candidates

\* the rule-based ranking of the turn just made
RuleBasedCandidates ==
    rule_based_rank(out.r.intent, out.message, out.r.knowledge, chat_limit, doctors)

\* C29: the candidate doctors of a chat turn do not depend on the stored
\* UserBehavior and UserProfile rows: the turn would have got the same
\* candidate list with any other behaviors and profiles, and the ranked
\* candidates are those of the rule-based ranking
C29_CandidatesIgnorePersonalData ==
    (out.op = "chat" /\ out.r.status # "crash")
        => /\ out.r.candidates_all = RuleBasedCandidates
           /\ \A behs \in BehaviorTables, profs \in PersonalProfiles :
                  CandidatesWith(behs, profs) = out.r.candidates

\* a turn of user 1, who has 20 behaviors, got candidates, and the hybrid
\* recommender would have answered a request with the user's id otherwise
C29_Witness ==
    /\ out.op = "chat" /\ out.r.status = "ok"
    /\ out.user = 1 /\ behaviors = ManyBehaviors /\ profiles = StoredProfiles
    /\ Len(out.r.candidates) > 0
    /\ smart_enabled(TRUE, out.user, behaviors, "none")
    /\ retrieve_doctors_by_intent(out.r.intent, out.message, out.r.knowledge, chat_limit,
                                  out.user, TRUE, behaviors, doctors, profiles,
                                  {out.user}, "none").result # out.r.candidates_all


(***************************************************************************)
(* Claims about the appointment requests                                   *)
(***************************************************************************)
Terminal == {"cancelled", "completed"}

ErrorResponses == {"400", "403", "404", "409", "500"}

\* id, status, date and time of the appointments whose status is terminal
TerminalRows(table) ==
    {<<table[i].id, table[i].status, table[i].appointment_date, table[i].appointment_time>> :
        i \in {j \in 1..Len(table) : table[j].status \in Terminal}}

\* a request is answered in this step
Responded ==
    /\ out'.op = "appointment"
    /\ out' # out \/ \E t \in AppointmentThreads : pc[t] # "idle" /\ pc'[t] = "idle"

\* thread t reads the appointment in this step and goes on
GoesOn(t) == pc[t] = "idle" /\ pc'[t] # "idle"

\* the status stored for the appointment that the response is about
StoredStatus == appointments[RowOf(appointments, out'.pk)].status

\* C30: cancelled and completed are terminal appointment states: once the
\* status of an appointment is cancelled or completed, no step of a
\* reschedule, cancel, check-in or complete request changes its status,
\* date or time
C30_TerminalStatesFrozen ==
    [][TerminalRows(appointments) \subseteq TerminalRows(appointments')]_vars

\* the rest of C30: every request answered while the status stored is
\* terminal is answered with an error, and a check-in is accepted only
\* while the status stored is upcoming
C30_TerminalRequestsRefused ==
    [][/\ (Responded /\ StoredStatus \in Terminal) => out'.code \in ErrorResponses
       /\ (Responded /\ out'.request = "checkin" /\ out'.code = "200")
              => StoredStatus = "upcoming"]_vars

\* a request that reads a terminal status is answered with an error at once
\* and writes nothing, and a check-in goes on only from status upcoming
C30_TerminalReadRejected ==
    [][/\ (Responded /\ out'.seen \in Terminal)
              => out'.code \in ErrorResponses /\ appointments' = appointments
       /\ \A t \in AppointmentThreads :
              GoesOn(t) => /\ local'[t].seen \notin Terminal
                           /\ local'[t].op = "checkin" => local'[t].seen = "upcoming"]_vars
====
